---- MODULE Spec2Model ----
(***************************************************************************)
(* A model of the big-o-tracker complexity inference engine: the symbolic  *)
(* complexity algebra and recurrence solver (symbolic.py), the structural  *)
(* feature extractor EnhancedCodeVisitor and the composer                  *)
(* compute_time_complexity / compute_space_complexity                      *)
(* (enhanced_analyzer.py), and the per-scope part of the result assembler  *)
(* ASTAnalyzer (ast_parser.py).                                            *)
(*                                                                         *)
(* The syntax tree handed to the extractor is modelled as records that     *)
(* mirror Python's ast node classes; the body of the analysed scope is     *)
(* drawn statement by statement from a bounded universe of statements.     *)
(***************************************************************************)
EXTENDS Integers, Sequences, FiniteSets, TLC

VARIABLES
    pc,       \* "walk" | "done" for the extractor; "ready" | "solved" for the solver
    kind,     \* node class of the analysed scope: "FunctionDef" | "AsyncFunctionDef"
    body,     \* the statements of the scope's body visited so far
    v,        \* the EnhancedCodeVisitor of the scope
    big_o,    \* ASTAnalyzer's local big_o (None until computed)
    space_o,  \* ASTAnalyzer's local space_o (None until computed)
    results,  \* ASTAnalyzer.results
    raised,   \* the exception that left the ASTAnalyzer handler, or None
    sin,      \* arguments of a RecurrenceSolver.solve call
    sout      \* its return value

vars == <<pc, kind, body, v, big_o, space_o, results, raised, sin, sout>>

\* Python's None, for optional strings
None == "None"

\* values of the variables a specification does not use
NoVisitor == [func_name |-> <<>>]
NoSolve == [recurrence_type |-> None]

(***************************************************************************)
(* symbolic.py: SymbolicComplexity                                         *)
(***************************************************************************)

\* ComplexityType members
ComplexityType ==
    {"CONSTANT", "LOGARITHMIC", "SQRT", "LINEAR", "LINEARITHMIC",
     "POLYNOMIAL", "EXPONENTIAL", "FACTORIAL", "MULTIVARIATE"}

\* SymbolicComplexity.__init__; degree 0 stands for degree=None, vars is the
\* set of <<variable, exponent>> pairs of the dict
SymbolicComplexity(expr_type, base_var, degree, vs) ==
    [expr_type |-> expr_type, base_var |-> base_var, degree |-> degree, vars |-> vs]

\* SymbolicComplexity(t) with the default arguments
SC(expr_type) == SymbolicComplexity(expr_type, "n", 0, {})

\* an Optional[SymbolicComplexity] that is None
NoComplexity == SymbolicComplexity(None, "n", 0, {})

\* the dict `order` of SymbolicComplexity.max
order(expr_type) ==
    CASE expr_type = "CONSTANT" -> 0
      [] expr_type = "LOGARITHMIC" -> 1
      [] expr_type = "SQRT" -> 2
      [] expr_type = "LINEAR" -> 3
      [] expr_type = "LINEARITHMIC" -> 4
      [] expr_type = "POLYNOMIAL" -> 5
      [] expr_type = "EXPONENTIAL" -> 6
      [] expr_type = "FACTORIAL" -> 7
      [] expr_type = "MULTIVARIATE" -> 8
      [] OTHER -> 0

\* SymbolicComplexity.max
max(self, other) ==
    IF order(self.expr_type) >= order(other.expr_type) THEN self ELSE other

\* self.degree or 1
DegreeOr1(c) == IF c.degree = 0 THEN 1 ELSE c.degree

\* a multiply that multiplies the degrees of two polynomials, as the comment
\* above that case of the code words it
multiply_degrees_multiplied(self, other) ==
    IF self.expr_type = "CONSTANT" THEN other
    ELSE IF other.expr_type = "CONSTANT" THEN self
    ELSE IF /\ self.expr_type = "LINEAR" /\ other.expr_type = "LINEAR"
            /\ self.base_var = other.base_var
         THEN SymbolicComplexity("POLYNOMIAL", self.base_var, 2, {})
    ELSE IF /\ self.expr_type = "LINEAR" /\ other.expr_type = "LOGARITHMIC"
            /\ self.base_var = other.base_var
         THEN SymbolicComplexity("LINEARITHMIC", self.base_var, 0, {})
    ELSE IF /\ self.expr_type = "LINEAR" /\ other.expr_type = "LINEAR"
            /\ self.base_var # other.base_var
         THEN SymbolicComplexity("MULTIVARIATE", "n", 0,
                                 {<<self.base_var, 1>>, <<other.base_var, 1>>})
    ELSE IF /\ self.expr_type = "POLYNOMIAL" /\ other.expr_type = "POLYNOMIAL"
            /\ self.base_var = other.base_var
         THEN SymbolicComplexity("POLYNOMIAL", self.base_var,
                                 DegreeOr1(self) * DegreeOr1(other), {})
    ELSE max(self, other)

\* SymbolicComplexity.multiply
multiply(self, other) ==
    IF self.expr_type = "CONSTANT" THEN other
    ELSE IF other.expr_type = "CONSTANT" THEN self
    ELSE IF /\ self.expr_type = "LINEAR" /\ other.expr_type = "LINEAR"
            /\ self.base_var = other.base_var
         THEN SymbolicComplexity("POLYNOMIAL", self.base_var, 2, {})
    ELSE IF /\ self.expr_type = "LINEAR" /\ other.expr_type = "LOGARITHMIC"
            /\ self.base_var = other.base_var
         THEN SymbolicComplexity("LINEARITHMIC", self.base_var, 0, {})
    ELSE IF /\ self.expr_type = "LINEAR" /\ other.expr_type = "LINEAR"
            /\ self.base_var # other.base_var
         THEN SymbolicComplexity("MULTIVARIATE", "n", 0,
                                 {<<self.base_var, 1>>, <<other.base_var, 1>>})
    ELSE IF /\ self.expr_type = "POLYNOMIAL" /\ other.expr_type = "POLYNOMIAL"
            /\ self.base_var = other.base_var
         THEN SymbolicComplexity("POLYNOMIAL", self.base_var,
                                 DegreeOr1(self) + DegreeOr1(other), {})
    ELSE max(self, other)

\* SymbolicComplexity.add
add(self, other) == max(self, other)

\* the exponent of a variable of a MULTIVARIATE value's dict
VarTerm(p) == IF p[2] = 1 THEN p[1] ELSE p[1] \o "^" \o ToString(p[2])

\* SymbolicComplexity.__str__; the dicts built by the code hold the keys "m"
\* and "n", joined in sorted order
str(c) ==
    CASE c.expr_type = "CONSTANT" -> "O(1)"
      [] c.expr_type = "LOGARITHMIC" -> "O(log " \o c.base_var \o ")"
      [] c.expr_type = "SQRT" -> "O(sqrt " \o c.base_var \o ")"   \* the radical sign, in ASCII
      [] c.expr_type = "LINEAR" -> "O(" \o c.base_var \o ")"
      [] c.expr_type = "LINEARITHMIC" ->
            "O(" \o c.base_var \o " log " \o c.base_var \o ")"
      [] c.expr_type = "POLYNOMIAL" ->
            IF c.degree = 0
            THEN "O(" \o c.base_var \o "^None)"
            ELSE "O(" \o c.base_var \o "^" \o ToString(c.degree) \o ")"
      [] c.expr_type = "EXPONENTIAL" -> "O(2^" \o c.base_var \o ")"
      [] c.expr_type = "FACTORIAL" -> "O(" \o c.base_var \o "!)"
      [] c.expr_type = "MULTIVARIATE" ->
            IF c.vars = {<<"m", 1>>, <<"n", 1>>} THEN "O(m * n)"
            ELSE IF Cardinality(c.vars) = 1
                 THEN "O(" \o VarTerm(CHOOSE p \in c.vars : TRUE) \o ")"
                 ELSE "O(...)"
      [] OTHER -> "O(1)"

(***************************************************************************)
(* symbolic.py: RecurrenceSolver                                           *)
(***************************************************************************)

\* str.startswith("n/")
StartsWithNSlash(s) == Len(s) >= 2 /\ SubSeq(s, 1, 2) = "n/"

\* the call count above which the backtracking shape is taken for n!
FactorialThreshold == 10

\* a solver that applies the generic "2 or more calls means exponential" rule
\* before it looks at the shape and the reduction pattern
solve_generic_first(recurrence_type, branching_factor, problem_reduction, work_per_level) ==
    IF branching_factor >= 2 THEN SC("EXPONENTIAL")
    ELSE IF recurrence_type = "linear" /\ problem_reduction = "n-1" THEN SC("LINEAR")
    ELSE IF recurrence_type = "linear" /\ StartsWithNSlash(problem_reduction)
         THEN SC("LOGARITHMIC")
    ELSE IF recurrence_type = "divide_conquer" /\ problem_reduction = "n/2"
         THEN SC("LOGARITHMIC")
    ELSE SC("LINEAR")

\* RecurrenceSolver.solve
solve(recurrence_type, branching_factor, problem_reduction, work_per_level) ==
    LET work == IF work_per_level = NoComplexity THEN SC("CONSTANT") ELSE work_per_level
        fallback == IF branching_factor >= 2 THEN SC("EXPONENTIAL") ELSE SC("LINEAR")
        \* the trailing part of the function, reached when no branch returned
        tail == IF /\ recurrence_type = "linear" /\ branching_factor >= 2
                   /\ problem_reduction = "n-1"
                THEN SC("EXPONENTIAL")
                ELSE fallback
    IN  IF recurrence_type = "linear" THEN
            IF problem_reduction = "n-1" /\ branching_factor = 1 THEN SC("LINEAR")
            ELSE IF problem_reduction = "n-1" /\ branching_factor >= 2 THEN SC("EXPONENTIAL")
            ELSE IF StartsWithNSlash(problem_reduction) THEN SC("LOGARITHMIC")
            ELSE tail
        ELSE IF recurrence_type = "divide_conquer" THEN
            IF /\ branching_factor = 2 /\ problem_reduction = "n/2"
               /\ work.expr_type = "LINEAR"
            THEN SC("LINEARITHMIC")
            ELSE IF /\ branching_factor = 2 /\ problem_reduction = "n/2"
                    /\ work.expr_type = "CONSTANT"
            THEN SC("LINEAR")
            ELSE IF branching_factor = 1 /\ problem_reduction = "n/2" THEN SC("LOGARITHMIC")
            ELSE tail
        ELSE IF recurrence_type = "backtracking" THEN
            IF problem_reduction = "n-1" /\ branching_factor = 2 THEN SC("EXPONENTIAL")
            ELSE IF problem_reduction = "n-1" /\ branching_factor > 2 THEN SC("EXPONENTIAL")
            ELSE IF problem_reduction = "n-1" /\ branching_factor > FactorialThreshold
            THEN SC("FACTORIAL")
            ELSE tail
        ELSE tail

\* DataStructureCosts.COSTS / get_cost; NoComplexity when the key is absent
get_cost(operation) ==
    CASE operation \in {"list.append", "list.pop", "dict.get", "dict.set",
                        "dict.__getitem__", "dict.__setitem__", "set.add",
                        "set.remove", "len"} -> SC("CONSTANT")
      [] operation \in {"list.pop(0)", "list.insert(0)", "list.index", "list.count",
                        "set.intersection", "str.find", "str.replace", "str.split",
                        "max", "min", "sum"} -> SC("LINEAR")
      [] operation \in {"list.sort", "sorted"} -> SC("LINEARITHMIC")
      [] OTHER -> NoComplexity

(***************************************************************************)
(* The syntax tree (Python's ast): expressions                             *)
(***************************************************************************)

\* an expression node: t is the node class; a Call whose func is a Name has
\* recv = None and id = func.id, a Call whose func is an Attribute on a Name
\* has recv = func.value.id and id = func.attr; args are the child expressions
Node(t, id, recv, op, value, args) ==
    [t |-> t, id |-> id, recv |-> recv, op |-> op, value |-> value, args |-> args]

Name(id) == Node("Name", id, None, None, 0, <<>>)
Constant(value) == Node("Constant", None, None, None, value, <<>>)
BinOp(left, op, right) == Node("BinOp", None, None, op, 0, <<left, right>>)
Subscript(id) == Node("Subscript", id, None, None, 0, <<>>)
List == Node("List", None, None, None, 0, <<>>)
Attribute(recv, attr) == Node("Attribute", attr, recv, None, 0, <<>>)
Call(id, args) == Node("Call", id, None, None, 0, args)
MethodCall(recv, attr, args) == Node("Call", attr, recv, None, 0, args)
\* an absent optional expression (a bare return)
NoExpr == Node(None, None, None, None, 0, <<>>)

IsNameCall(e, id) == e.t = "Call" /\ e.recv = None /\ e.id = id

(***************************************************************************)
(* The syntax tree: statements                                             *)
(***************************************************************************)

\* a statement node: t is the node class, name the name of a FunctionDef,
\* target the (single) target of an Assign or AugAssign, op the operator of
\* an AugAssign, value the value / test / iter expression
Stmt(t, name, target, op, value, stmts, orelse) ==
    [t |-> t, name |-> name, target |-> target, op |-> op, value |-> value,
     body |-> stmts, orelse |-> orelse]

Expr(value) == Stmt("Expr", None, NoExpr, None, value, <<>>, <<>>)
Return(value) == Stmt("Return", None, NoExpr, None, value, <<>>, <<>>)
Assign(target, value) == Stmt("Assign", None, target, None, value, <<>>, <<>>)
AugAssign(target, op, value) == Stmt("AugAssign", None, target, op, value, <<>>, <<>>)
For(iter, stmts) == Stmt("For", None, Name("i"), None, iter, stmts, <<>>)
While(test, stmts) == Stmt("While", None, NoExpr, None, test, stmts, <<>>)
If(test, stmts, orelse) == Stmt("If", None, NoExpr, None, test, stmts, orelse)
FunctionDef(name, stmts) == Stmt("FunctionDef", name, NoExpr, None, NoExpr, stmts, <<>>)
Pass == Stmt("Pass", None, NoExpr, None, NoExpr, <<>>, <<>>)

(***************************************************************************)
(* enhanced_analyzer.py: EnhancedCodeVisitor                               *)
(***************************************************************************)

\* LoopInfo, with bound_type None until a branch of the visitor sets it
LoopInfo(bound_type, is_nested) == [bound_type |-> bound_type, is_nested |-> is_nested]

\* EnhancedCodeVisitor.__init__; func_name is the list of the dotted name's
\* components (<<>> for func_name=None), the fields of recursion_info are
\* held flat
EnhancedCodeVisitor(func_name) ==
    [func_name |-> func_name,
     loops |-> <<>>,
     current_loop_depth |-> 0,
     branching_factor |-> 0,
     problem_reduction |-> None,
     recurrence_type |-> None,
     work_per_level |-> NoComplexity,
     operation_costs |-> <<>>,
     auxiliary_space |-> <<>>,
     branch_complexities |-> <<>>,
     in_conditional |-> FALSE,
     has_mutable_state |-> FALSE,
     has_undo_operations |-> FALSE,
     has_binary_search_pattern |-> FALSE]

\* self.func_name.split('.')[-1]
func_name_base(func_name) == func_name[Len(func_name)]

\* one iteration of the loop of _analyze_problem_reduction
AnalyzeArg(arg, w) ==
    IF arg.t = "BinOp" THEN
        LET left == arg.args[1]
            right == arg.args[2]
        IN  IF arg.op = "Sub" THEN
                IF left.t = "Name" /\ right.t = "Constant" /\ right.value = 1
                THEN [w EXCEPT !.problem_reduction = "n-1"] ELSE w
            ELSE IF arg.op = "Add" THEN
                IF left.t = "Name" /\ right.t = "Constant" /\ right.value = 1
                THEN [w EXCEPT !.problem_reduction = "index+1"] ELSE w
            ELSE IF arg.op \in {"FloorDiv", "Div"} THEN
                IF right.t = "Constant"
                THEN IF right.value = 2
                     THEN [w EXCEPT !.problem_reduction = "n/2"]
                     ELSE [w EXCEPT !.problem_reduction = "n/" \o ToString(right.value)]
                ELSE w
            ELSE w
    ELSE IF arg.t = "Subscript" THEN
        [w EXCEPT !.problem_reduction = "n/2", !.recurrence_type = "divide_conquer"]
    ELSE IF IsNameCall(arg, "len") THEN
        IF w.problem_reduction = None THEN [w EXCEPT !.problem_reduction = "n-1"] ELSE w
    ELSE w

RECURSIVE AnalyzeArgs(_, _)
AnalyzeArgs(args, w) ==
    IF args = <<>> THEN w ELSE AnalyzeArgs(Tail(args), AnalyzeArg(Head(args), w))

\* EnhancedCodeVisitor._analyze_problem_reduction
analyze_problem_reduction(call_node, w) == AnalyzeArgs(call_node.args, w)

\* the part of visit_Call that looks up the cost of the operation
CallCosts(node, w) ==
    LET byAttr ==
            IF node.recv # None /\ get_cost(node.recv \o "." \o node.id) # NoComplexity
            THEN <<get_cost(node.recv \o "." \o node.id)>> ELSE <<>>
        bySort == IF node.recv # None /\ node.id = "sort"
                  THEN <<SC("LINEARITHMIC")>> ELSE <<>>
        byName == IF node.recv = None /\ get_cost(node.id) # NoComplexity
                  THEN <<get_cost(node.id)>> ELSE <<>>
    IN  [w EXCEPT !.operation_costs = @ \o byAttr \o bySort \o byName]

\* is_recursive of visit_Call
is_recursive(node, w) ==
    /\ w.func_name # <<>>
    /\ \/ node.recv = None /\ node.id = func_name_base(w.func_name)
       \/ node.recv = "self" /\ node.id = func_name_base(w.func_name)

\* a visit_Call that reads the reduction of a self-call without counting it
CallHead_uncounted(node, w) ==
    LET w1 == CallCosts(node, w)
    IN  IF is_recursive(node, w1) THEN analyze_problem_reduction(node, w1) ELSE w1

\* the part of visit_Call before the generic visits
CallHead(node, w) ==
    LET w1 == CallCosts(node, w)
    IN  IF is_recursive(node, w1)
        THEN analyze_problem_reduction(
                 node, [w1 EXCEPT !.branching_factor = @ + 1])
        ELSE w1


\* targets whose attribute names signal mutable state
MutatingAttrs == {"append", "pop", "add", "remove"}
UndoAttrs == {"pop", "remove"}

\* the target test shared by visit_AugAssign and visit_Assign
MarkTarget(target, w) ==
    IF target.t = "Attribute" /\ target.id \in MutatingAttrs
    THEN [w EXCEPT !.has_mutable_state = TRUE,
                   !.has_undo_operations = @ \/ target.id \in UndoAttrs]
    ELSE w

\* EnhancedCodeVisitor.visit_AugAssign (it does not visit the children)
visit_AugAssign(node, w) == MarkTarget(node.target, w)

\* EnhancedCodeVisitor.visit_Assign (it does not visit the children)
visit_Assign(node, w) ==
    LET w1 == MarkTarget(node.target, w)
        copies == /\ node.value.t = "Call" /\ node.value.recv # None
                  /\ node.value.id \in {"copy", "__getitem__"}
        concat == /\ node.value.t = "BinOp" /\ node.value.op = "Add"
                  /\ \/ node.value.args[1].t = "List"
                     \/ node.value.args[2].t = "List"
    IN  IF copies \/ concat THEN [w1 EXCEPT !.has_mutable_state = TRUE] ELSE w1

\* the bound of a len(...) call as visit_For reads it
LenBound(arg) ==
    IF arg.args # <<>> /\ arg.args[1].t = "Subscript" THEN "m" ELSE "n"

\* the bound_type visit_For gives a loop, from node.iter
ForBoundType(iter) ==
    IF IsNameCall(iter, "range") THEN
        IF Len(iter.args) = 1 THEN
            LET arg == iter.args[1]
            IN  IF arg.t = "Name" THEN "n"
                ELSE IF arg.t = "Constant" THEN "constant"
                ELSE IF IsNameCall(arg, "len") THEN LenBound(arg)
                ELSE "n"
        ELSE IF Len(iter.args) = 2 THEN
            LET second_arg == iter.args[2]
            IN  IF second_arg.t = "Call"
                THEN IF IsNameCall(second_arg, "len") /\ second_arg.args # <<>>
                     THEN LenBound(second_arg)
                     ELSE None
                ELSE "n"
        ELSE IF Len(iter.args) = 3 THEN "n"
        ELSE None
    ELSE IF iter.t = "Name" THEN "n"
    ELSE None

\* check_binary_search_pattern of visit_While: the three flags it sets
RECURSIVE has_mid(_)
has_mid(stmts) ==
    \E i \in 1..Len(stmts) :
        \/ /\ stmts[i].t = "Assign" /\ stmts[i].target.t = "Name"
           /\ stmts[i].target.id = "mid"
           /\ stmts[i].value.t = "BinOp" /\ stmts[i].value.op = "FloorDiv"
        \/ stmts[i].t = "If" /\ (has_mid(stmts[i].body) \/ has_mid(stmts[i].orelse))

RECURSIVE has_left_update(_)
has_left_update(stmts) ==
    \E i \in 1..Len(stmts) :
        \/ /\ stmts[i].t = "Assign" /\ stmts[i].target.t = "Name"
           /\ stmts[i].target.id \in {"l", "left", "low"}
           /\ stmts[i].value.t = "BinOp" /\ stmts[i].value.op = "Add"
           /\ stmts[i].value.args[1].t = "Name" /\ stmts[i].value.args[1].id = "mid"
        \/ /\ stmts[i].t = "If"
           /\ (has_left_update(stmts[i].body) \/ has_left_update(stmts[i].orelse))

RECURSIVE has_right_update(_)
has_right_update(stmts) ==
    \E i \in 1..Len(stmts) :
        \/ /\ stmts[i].t = "Assign" /\ stmts[i].target.t = "Name"
           /\ stmts[i].target.id \in {"r", "right", "high"}
           /\ stmts[i].value.t = "BinOp" /\ stmts[i].value.op = "Sub"
           /\ stmts[i].value.args[1].t = "Name" /\ stmts[i].value.args[1].id = "mid"
        \/ /\ stmts[i].t = "If"
           /\ (has_right_update(stmts[i].body) \/ has_right_update(stmts[i].orelse))

\* the "n //= k" scan of visit_While over the statements of the loop body
HasDividingAugAssign(stmts) ==
    \E i \in 1..Len(stmts) :
        stmts[i].t = "AugAssign" /\ stmts[i].op \in {"FloorDiv", "Div"}

\* the bound_type visit_While gives a loop
WhileBoundType(node) ==
    IF HasDividingAugAssign(node.body) THEN "log n"
    ELSE IF has_mid(node.body)
            /\ (has_left_update(node.body) \/ has_right_update(node.body))
         THEN "log n"
    ELSE None

\* current_loop_depth when visit_For / visit_While return: prev_depth is read
\* after the increment, so the depth of the loop itself is what is restored
DepthAfterLoop(depth_before) == depth_before + 1

\* the merge of a nested function's visitor into the enclosing one
\* (visit_FunctionDef, nested case)
MergeNested(w, nested) ==
    LET w1 == IF nested.branching_factor > 0
              THEN [w EXCEPT
                      !.branching_factor =
                          IF nested.branching_factor > @ THEN nested.branching_factor ELSE @,
                      !.problem_reduction =
                          IF nested.problem_reduction # None
                          THEN nested.problem_reduction ELSE @,
                      !.recurrence_type =
                          IF nested.recurrence_type # None
                          THEN nested.recurrence_type ELSE @]
              ELSE w
    IN  [w1 EXCEPT !.has_mutable_state = @ \/ nested.has_mutable_state,
                   !.has_undo_operations = @ \/ nested.has_undo_operations]

\* the flags as visit_FunctionDef leaves them after the walk of the scope
\* under analysis: the values saved before the walk
RestoreFlags(w, prev_mutable, prev_undo) ==
    [w EXCEPT !.has_mutable_state = prev_mutable, !.has_undo_operations = prev_undo]

RECURSIVE visit(_, _), visit_all(_, _), visit_stmt(_, _), visit_stmts(_, _)

\* NodeVisitor.visit on every expression of a list, in order
visit_all(exprs, w) ==
    IF exprs = <<>> THEN w ELSE visit_all(Tail(exprs), visit(Head(exprs), w))

\* EnhancedCodeVisitor.visit_Call: generic_visit runs twice
visit_Call(node, w) ==
    visit_all(node.args, visit_all(node.args, CallHead(node, w)))

\* NodeVisitor.visit on an expression: visit_Call for a Call, generic_visit
\* (the child expressions, in order) for every other class
visit(node, w) ==
    IF node.t = "Call" THEN visit_Call(node, w) ELSE visit_all(node.args, w)

\* NodeVisitor.visit on every statement of a list, in order
visit_stmts(stmts, w) ==
    IF stmts = <<>> THEN w ELSE visit_stmts(Tail(stmts), visit_stmt(Head(stmts), w))

\* EnhancedCodeVisitor.visit_For
visit_For(node, w) ==
    LET depth == w.current_loop_depth + 1
        loop_info == LoopInfo(ForBoundType(node.value), depth > 1)
        w1 == [w EXCEPT !.current_loop_depth = depth, !.loops = Append(@, loop_info)]
        \* generic_visit: target, iter, body, orelse
        w2 == visit_stmts(node.orelse, visit_stmts(node.body, visit(node.value, w1)))
    IN  [w2 EXCEPT !.current_loop_depth = DepthAfterLoop(w.current_loop_depth)]

\* EnhancedCodeVisitor.visit_While
visit_While(node, w) ==
    LET depth == w.current_loop_depth + 1
        loop_info == LoopInfo(WhileBoundType(node), depth > 1)
        found == has_mid(node.body)
                 /\ (has_left_update(node.body) \/ has_right_update(node.body))
        w1 == [w EXCEPT !.current_loop_depth = depth, !.loops = Append(@, loop_info),
                        !.has_binary_search_pattern = @ \/ found]
        \* generic_visit: test, body, orelse
        w2 == visit_stmts(node.orelse, visit_stmts(node.body, visit(node.value, w1)))
    IN  [w2 EXCEPT !.current_loop_depth = DepthAfterLoop(w.current_loop_depth)]

\* EnhancedCodeVisitor.visit_If: the statements of both branches are visited
\* with the same visitor; node.test is not visited
visit_If(node, w) ==
    LET w1 == [w EXCEPT !.in_conditional = TRUE, !.branch_complexities = <<>>]
        w2 == visit_stmts(node.orelse, visit_stmts(node.body, w1))
    IN  [w2 EXCEPT !.in_conditional = FALSE,
                   !.branch_complexities = w.branch_complexities]

\* EnhancedCodeVisitor.visit_FunctionDef
visit_FunctionDef(node, w) ==
    IF w.func_name # <<>> /\ node.name # func_name_base(w.func_name)
    THEN \* a nested function: its own visitor, merged into this one
         LET nested == visit_stmt(node, EnhancedCodeVisitor(Append(w.func_name, node.name)))
         IN  MergeNested(w, nested)
    ELSE \* the scope under analysis
         LET w1 == [w EXCEPT !.has_mutable_state = FALSE, !.has_undo_operations = FALSE]
             w2 == visit_stmts(node.body, w1)
         IN  RestoreFlags(w2, w.has_mutable_state, w.has_undo_operations)

\* NodeVisitor.visit on a statement
visit_stmt(node, w) ==
    CASE node.t = "For" -> visit_For(node, w)
      [] node.t = "While" -> visit_While(node, w)
      [] node.t = "If" -> visit_If(node, w)
      [] node.t = "Assign" -> visit_Assign(node, w)
      [] node.t = "AugAssign" -> visit_AugAssign(node, w)
      [] node.t = "FunctionDef" -> visit_FunctionDef(node, w)
      [] node.t \in {"Expr", "Return"} -> visit(node.value, w)
      \* no visit_AsyncFunctionDef, no visit_ClassDef: generic_visit
      [] node.t \in {"AsyncFunctionDef", "ClassDef"} -> visit_stmts(node.body, w)
      [] OTHER -> w

(***************************************************************************)
(* enhanced_analyzer.py: the composer                                      *)
(***************************************************************************)

\* a left fold of SymbolicComplexity.add over a list of costs
RECURSIVE AddAll(_, _)
AddAll(costs, acc) ==
    IF costs = <<>> THEN acc ELSE AddAll(Tail(costs), add(acc, Head(costs)))

\* a left fold of SymbolicComplexity.max over a list of costs
RECURSIVE MaxAll(_, _)
MaxAll(costs, acc) ==
    IF costs = <<>> THEN acc ELSE MaxAll(Tail(costs), max(acc, Head(costs)))

\* step 1 of compute_time_complexity: a LINEARITHMIC operation cost is
\* returned at once
HasLinearithmicCost(w) ==
    \E i \in 1..Len(w.operation_costs) : w.operation_costs[i].expr_type = "LINEARITHMIC"

\* problem_reduction or "n-1"
ReductionOrDefault(w) ==
    IF w.problem_reduction = None THEN "n-1" ELSE w.problem_reduction

\* a step 2 that takes every recursion with mutable state for backtracking,
\* a single self-call included
RecursionAlwaysBacktracking(w) ==
    IF w.has_mutable_state
    THEN IF Len(w.loops) > 0 THEN SC("FACTORIAL") ELSE SC("EXPONENTIAL")
    ELSE solve(IF w.recurrence_type = None THEN "linear" ELSE w.recurrence_type,
               w.branching_factor, ReductionOrDefault(w), NoComplexity)

\* step 2 of compute_time_complexity, for branching_factor >= 1
RecursionComplexity(w) ==
    LET recurrence_type == IF w.recurrence_type = None THEN "linear" ELSE w.recurrence_type
        has_loop_in_recursion == Len(w.loops) > 0
        solved ==
            IF w.branching_factor >= 2 THEN
                IF w.has_mutable_state THEN
                    IF has_loop_in_recursion THEN SC("FACTORIAL")
                    ELSE IF w.has_undo_operations
                         THEN solve("backtracking", 2, "n-1", NoComplexity)
                         ELSE solve("backtracking", w.branching_factor, "n-1", NoComplexity)
                ELSE IF w.problem_reduction = "n/2"
                     THEN solve("divide_conquer", w.branching_factor,
                                ReductionOrDefault(w), SC("LINEAR"))
                     ELSE solve(recurrence_type, w.branching_factor,
                                ReductionOrDefault(w), NoComplexity)
            ELSE
                IF has_loop_in_recursion /\ w.has_mutable_state THEN SC("FACTORIAL")
                ELSE solve(recurrence_type, 1, ReductionOrDefault(w), NoComplexity)
    IN  IF w.work_per_level # NoComplexity THEN add(solved, w.work_per_level) ELSE solved

\* the class a sequential loop contributes (step 3, sequential loops)
SeqLoopCost(loop) ==
    IF loop.bound_type = "n" THEN SC("LINEAR")
    ELSE IF loop.bound_type = "log n" THEN SC("LOGARITHMIC")
    ELSE IF loop.bound_type = "constant" THEN SC("CONSTANT")
    ELSE SC("LINEAR")

RECURSIVE SeqComplexity(_, _)
SeqComplexity(loops, acc) ==
    IF loops = <<>> THEN acc
    ELSE SeqComplexity(Tail(loops),
                       IF Head(loops).is_nested THEN acc
                       ELSE max(acc, SeqLoopCost(Head(loops))))

\* one loop of the product over all loops (step 3, nested loops)
NestedStep(acc, loop) ==
    IF loop.bound_type \in {"n", None, "m"} THEN multiply(acc, SC("LINEAR"))
    ELSE IF loop.bound_type = "log n" THEN multiply(acc, SC("LOGARITHMIC"))
    ELSE acc

RECURSIVE NestedProduct(_, _)
NestedProduct(loops, acc) ==
    IF loops = <<>> THEN acc
    ELSE NestedProduct(Tail(loops), NestedStep(acc, Head(loops)))

\* step 3 of compute_time_complexity: the loops
LoopComplexity(w, complexity) ==
    LET has_nested == \E i \in 1..Len(w.loops) : w.loops[i].is_nested
        has_m == \E i \in 1..Len(w.loops) : w.loops[i].bound_type = "m"
        nested_complexity ==
            IF has_m
            THEN SymbolicComplexity("MULTIVARIATE", "n", 0, {<<"n", 1>>, <<"m", 1>>})
            ELSE NestedProduct(w.loops, SC("CONSTANT"))
    IN  IF w.loops = <<>> THEN complexity
        ELSE IF has_nested THEN max(complexity, nested_complexity)
        ELSE max(complexity, SeqComplexity(w.loops, SC("CONSTANT")))

\* a composer without the two early returns: the operation costs are only
\* added, and the binary-search flag is not looked at
compute_time_no_early_return(w) ==
    LET after_ops == AddAll(w.operation_costs, SC("CONSTANT"))
        after_rec == IF w.branching_factor > 0 THEN RecursionComplexity(w) ELSE after_ops
        recursion_dominates == /\ w.branching_factor > 0
                               /\ after_rec.expr_type # "CONSTANT"
        after_loops == IF recursion_dominates THEN after_rec
                       ELSE LoopComplexity(w, after_rec)
    IN  MaxAll(w.branch_complexities, after_loops)

\* compute_time_complexity
compute_time_complexity(w) ==
    IF HasLinearithmicCost(w)
    THEN w.operation_costs[CHOOSE i \in 1..Len(w.operation_costs) :
            /\ w.operation_costs[i].expr_type = "LINEARITHMIC"
            /\ \A j \in 1..(i - 1) : w.operation_costs[j].expr_type # "LINEARITHMIC"]
    ELSE IF w.has_binary_search_pattern /\ w.branching_factor = 0
    THEN SC("LOGARITHMIC")
    ELSE LET after_ops == AddAll(w.operation_costs, SC("CONSTANT"))
             after_rec == IF w.branching_factor > 0
                          THEN RecursionComplexity(w) ELSE after_ops
             recursion_dominates == /\ w.branching_factor > 0
                                    /\ after_rec.expr_type # "CONSTANT"
             after_loops == IF recursion_dominates THEN after_rec
                            ELSE LoopComplexity(w, after_rec)
         IN  MaxAll(w.branch_complexities, after_loops)

\* a space rule that takes every dividing reduction for a Logarithmic stack
compute_space_any_division(w) ==
    LET stack == IF w.branching_factor > 0
                 THEN IF w.problem_reduction # None /\ StartsWithNSlash(w.problem_reduction)
                      THEN SC("LOGARITHMIC") ELSE SC("LINEAR")
                 ELSE SC("CONSTANT")
    IN  MaxAll(w.auxiliary_space, stack)

\* compute_space_complexity
compute_space_complexity(w) ==
    LET stack == IF w.branching_factor > 0
                 THEN IF w.problem_reduction = "n-1" THEN SC("LINEAR")
                      ELSE IF w.problem_reduction = "n/2" THEN SC("LOGARITHMIC")
                      ELSE SC("LINEAR")
                 ELSE SC("CONSTANT")
    IN  MaxAll(w.auxiliary_space, stack)

\* models.py: FunctionAnalysis
FunctionAnalysis(name, time_complexity, space_complexity, max_loop_depth, recursive_calls) ==
    [name |-> name, time_complexity |-> time_complexity,
     space_complexity |-> space_complexity, max_loop_depth |-> max_loop_depth,
     recursive_calls |-> recursive_calls]

\* ast_parser.py: the entry ASTAnalyzer.visit_FunctionDef appends for a
\* function definition; outside a class the full name is the name of the node
ResultOf(node) ==
    LET w == visit_stmt(node, EnhancedCodeVisitor(<<node.name>>))
    IN  FunctionAnalysis(<<node.name>>, str(compute_time_complexity(w)),
                         str(compute_space_complexity(w)),
                         Len(w.loops), w.branching_factor)

\* ast_parser.py: the generic_visit that ends ASTAnalyzer.visit_FunctionDef;
\* every function definition met in the statements is analysed as a scope of
\* its own, then its body is searched in turn
RECURSIVE analyze_stmts(_, _)
analyze_stmts(stmts, acc) ==
    IF stmts = <<>> THEN acc
    ELSE LET node == Head(stmts)
             acc1 == IF node.t = "FunctionDef" THEN Append(acc, ResultOf(node)) ELSE acc
         IN  analyze_stmts(Tail(stmts),
                           analyze_stmts(node.orelse, analyze_stmts(node.body, acc1)))

(***************************************************************************)
(* The bounded universe of scopes handed to the analyzer.  The analysed    *)
(* scope is named f; g is a function nested in it.                         *)
(***************************************************************************)

\* largest number of statements in the body of the analysed scope
MaxStmts == 2

n1 == Name("n")
Sub1 == BinOp(n1, "Sub", Constant(1))        \* n - 1
Sub2 == BinOp(n1, "Sub", Constant(2))        \* n - 2
Add1 == BinOp(Name("i"), "Add", Constant(1)) \* i + 1
Div2 == BinOp(n1, "FloorDiv", Constant(2))   \* n // 2
TrueDiv2 == BinOp(n1, "Div", Constant(2))    \* n / 2
Div3 == BinOp(n1, "Div", Constant(3))        \* n / 3
Slice == Subscript("a")                      \* a[:mid]
Mid == BinOp(BinOp(Name("l"), "Add", Name("r")), "FloorDiv", Constant(2))

\* f(arg) and self.f(arg)
SelfCall(arg) == Call("f", <<arg>>)
SelfMethodCall(arg) == MethodCall("self", "f", <<arg>>)

SelfArgs == {Sub1, Add1, Div2, TrueDiv2, Div3, Slice, n1}
HalvingArgs == {Div2, TrueDiv2, Slice}

\* the two self-calls of one expression
ArgPairs == {<<Sub1, Sub1>>, <<Sub1, Sub2>>, <<Div2, Div2>>, <<Slice, Slice>>}

SortCalls == {MethodCall("a", "sort", <<>>), Call("sorted", <<Name("a")>>)}

\* expressions that hold self-calls
RecursiveValues ==
    {SelfCall(a) : a \in SelfArgs}
      \cup {SelfMethodCall(Sub1)}
      \cup {BinOp(SelfCall(p[1]), "Add", SelfCall(p[2])) : p \in ArgPairs}
      \cup {Call("merge", <<SelfCall(p[1]), SelfCall(p[2])>>) : p \in ArgPairs}
      \cup {Call("abs", <<SelfCall(a)>>) : a \in {Sub1, Div2}}

\* expressions that hold none
PlainValues ==
    SortCalls
      \cup {Name("x"), Call("merge", <<Name("l"), Name("r")>>), Call("max", <<Name("a")>>),
            MethodCall("list", "sort", <<>>),
            MethodCall("path", "append", <<n1>>), MethodCall("path", "pop", <<>>)}

\* right-hand sides of assignments
AssignedValues ==
    {SelfCall(a) : a \in {Sub1, Div2, Slice}}
      \cup {Call("sorted", <<Name("a")>>), MethodCall("path", "copy", <<>>),
            BinOp(Name("path"), "Add", List), Name("y")}

SimpleStmts ==
    {Return(e) : e \in RecursiveValues \cup PlainValues}
      \cup {Expr(e) : e \in {SelfCall(Sub1), SelfCall(Div2)} \cup SortCalls
                           \cup {MethodCall("path", "append", <<n1>>),
                                 MethodCall("path", "pop", <<>>)}}
      \cup {Assign(Name("x"), e) : e \in AssignedValues}
      \cup {Assign(Attribute("path", "pop"), Name("y")),
            AugAssign(n1, "FloorDiv", Constant(2)),
            AugAssign(Name("x"), "Add", SelfCall(Sub1)),
            AugAssign(Attribute("path", "append"), "Add", Name("y")),
            Pass}

\* range(...) over a variable, a constant, a length, a second dimension
RangeN == Call("range", <<n1>>)
Range10 == Call("range", <<Constant(10)>>)
RangeLen == Call("range", <<Call("len", <<Name("a")>>)>>)
RangeLenRow == Call("range", <<Call("len", <<Subscript("a")>>)>>)
Range0N == Call("range", <<Constant(0), n1>>)
Range0Const == Call("range", <<Constant(0), Constant(10)>>)
Range0Len == Call("range", <<Constant(0), Call("len", <<Name("a")>>)>>)
RangeStep == Call("range", <<Constant(0), Constant(10), Constant(2)>>)

Iters == {RangeN, Range10, RangeLen, RangeLenRow, Range0N, Range0Const, Range0Len,
          RangeStep, Name("a"), Call("enumerate", <<Name("a")>>)}

\* counting loops bounded by the size variable
CountingIters == {RangeN, Range0N, RangeLen}

Halving == While(Name("n"), <<AugAssign(n1, "FloorDiv", Constant(2))>>)
HalvingAssign == While(Name("n"), <<Assign(n1, Div2)>>)
BinarySearch ==
    While(Name("c"),
          <<Assign(Name("mid"), Mid),
            If(Name("c"),
               <<Assign(Name("l"), BinOp(Name("mid"), "Add", Constant(1)))>>,
               <<Assign(Name("r"), BinOp(Name("mid"), "Sub", Constant(1)))>>)>>)

ForStmts ==
    {For(it, <<Pass>>) : it \in Iters}
      \cup {For(RangeN, <<For(it, <<Pass>>)>>) : it \in {RangeN, RangeLenRow, Range10}}
      \cup {For(RangeN, <<For(RangeN, <<For(RangeN, <<Pass>>)>>)>>),
            For(RangeN, <<Halving>>),
            For(RangeN, <<Expr(SelfCall(Sub1))>>),
            For(RangeN, <<For(RangeN, <<Pass>>), For(RangeN, <<Pass>>)>>)}

WhileStmts ==
    {Halving, HalvingAssign, BinarySearch,
     While(Name("c"), <<Pass>>),
     While(Name("n"), <<For(RangeN, <<Pass>>), AugAssign(n1, "FloorDiv", Constant(2))>>),
     While(SelfCall(Sub1), <<Pass>>)}

\* the statements of one branch of a conditional
Branches == {<<Return(n1)>>, <<Return(SelfCall(Sub1))>>, <<Return(SelfCall(Div2))>>}

IfStmts ==
    {If(Name("c"), b, <<>>) : b \in Branches}
      \cup {If(Name("c"), b1, b2) : b1 \in Branches, b2 \in Branches}
      \cup {If(Name("c"), b1, <<If(Name("d"), <<Return(SelfCall(Div2))>>, b3)>>) :
                b1 \in Branches \ {<<Return(SelfCall(Sub1))>>},
                b3 \in {<<>>, <<Return(SelfCall(Div2))>>}}
      \cup {If(SelfCall(Sub1), <<Return(n1)>>, <<>>),
            If(Name("c"), <<Assign(Name("x"), SelfCall(Sub1))>>, <<>>)}

\* g(arg), the self-call of the nested function g
NestedCall(arg) == Call("g", <<arg>>)

DefStmts ==
    {FunctionDef("g", b) :
        b \in {<<Return(n1)>>,
               <<Return(NestedCall(Div2))>>,
               <<Return(BinOp(NestedCall(Sub1), "Add", NestedCall(Sub1)))>>,
               <<Assign(Name("path"), BinOp(Name("path"), "Add", List))>>,
               <<Return(SelfCall(Sub1))>>}}
      \cup {FunctionDef("f", <<Assign(Name("path"), BinOp(Name("path"), "Add", List)),
                               Return(SelfCall(Sub1))>>)}

TopStmts == SimpleStmts \cup ForStmts \cup WhileStmts \cup IfStmts \cup DefStmts

(***************************************************************************)
(* The walk of one scope and its result                                    *)
(***************************************************************************)

ScopeKinds == {"FunctionDef", "AsyncFunctionDef"}

\* the full name ASTAnalyzer gives the scope
full_name == <<"f">>

\* ASTAnalyzer has created EnhancedCodeVisitor(full_name) and called visit on
\* the scope's node; for a FunctionDef, visit_FunctionDef has saved and reset
\* the two flags and starts the generic visit of the body
Init ==
    /\ pc = "walk"
    /\ kind \in ScopeKinds
    /\ body = <<>>
    /\ v = EnhancedCodeVisitor(full_name)
    /\ big_o = None /\ space_o = None /\ results = <<>> /\ raised = None
    /\ sin = NoSolve /\ sout = NoComplexity

\* the generic visit of the scope's body reaches its next statement
Reach(node) ==
    /\ body' = Append(body, node)
    /\ v' = visit_stmt(node, v)
    /\ UNCHANGED <<pc, kind, big_o, space_o, results, raised, sin, sout>>

\* the statements of class t in a set of statements
OfClass(stmts, t) == {node \in stmts : node.t = t}

\* the next statement of the body is a for loop: visit_For
VisitFor ==
    /\ pc = "walk" /\ Len(body) < MaxStmts
    /\ \E node \in ForStmts : Reach(node)

\* the next statement of the body is a while loop: visit_While
VisitWhile ==
    /\ pc = "walk" /\ Len(body) < MaxStmts
    /\ \E node \in WhileStmts : Reach(node)

\* the next statement of the body is a conditional: visit_If
VisitIf ==
    /\ pc = "walk" /\ Len(body) < MaxStmts
    /\ \E node \in IfStmts : Reach(node)

\* the next statement of the body is an assignment: visit_Assign
VisitAssign ==
    /\ pc = "walk" /\ Len(body) < MaxStmts
    /\ \E node \in OfClass(SimpleStmts, "Assign") : Reach(node)

\* the next statement of the body is an augmented assignment: visit_AugAssign
VisitAugAssign ==
    /\ pc = "walk" /\ Len(body) < MaxStmts
    /\ \E node \in OfClass(SimpleStmts, "AugAssign") : Reach(node)

\* the next statement of the body is a function definition: visit_FunctionDef
VisitNestedDef ==
    /\ pc = "walk" /\ Len(body) < MaxStmts
    /\ \E node \in DefStmts : Reach(node)

\* the next statement of the body is an expression statement, a return or a
\* pass: generic_visit
VisitOther ==
    /\ pc = "walk" /\ Len(body) < MaxStmts
    /\ \E node \in SimpleStmts \ (OfClass(SimpleStmts, "Assign")
                                   \cup OfClass(SimpleStmts, "AugAssign")) :
          Reach(node)

\* ASTAnalyzer.visit_FunctionDef, from the return of the generic visit of the
\* scope on: visit_FunctionDef of the visitor restores the flags, the two
\* complexities are computed, the result is appended, and the functions
\* defined inside the scope are analysed in turn
AnalyzeFunctionDef ==
    /\ pc = "walk"
    /\ kind = "FunctionDef"
    /\ LET w == RestoreFlags(v, FALSE, FALSE)
       IN  /\ v' = w
           /\ big_o' = str(compute_time_complexity(w))
           /\ space_o' = str(compute_space_complexity(w))
           /\ results' = analyze_stmts(body,
                  Append(results,
                         FunctionAnalysis(full_name, str(compute_time_complexity(w)),
                                          str(compute_space_complexity(w)),
                                          Len(w.loops), w.branching_factor)))
    /\ pc' = "done"
    /\ UNCHANGED <<kind, body, raised, sin, sout>>

\* ASTAnalyzer.visit_AsyncFunctionDef, from the return of the visitor on: the
\* visitor has no visit_AsyncFunctionDef, so nothing is restored; the two
\* complexities are computed; building the result reads the local `visitor`,
\* which only the fallback branch binds
AnalyzeAsyncFunctionDef ==
    /\ pc = "walk"
    /\ kind = "AsyncFunctionDef"
    /\ big_o' = str(compute_time_complexity(v))
    /\ space_o' = str(compute_space_complexity(v))
    /\ raised' = "UnboundLocalError"
    /\ pc' = "done"
    /\ UNCHANGED <<kind, body, v, results, sin, sout>>

Next ==
    \/ VisitFor \/ VisitWhile \/ VisitIf \/ VisitAssign \/ VisitAugAssign
    \/ VisitNestedDef \/ VisitOther
    \/ AnalyzeFunctionDef \/ AnalyzeAsyncFunctionDef

Spec == Init /\ [][Next]_vars

(***************************************************************************)
(* Readings of the analysed body, used to state what the design promises   *)
(* about it                                                                *)
(***************************************************************************)

\* an expression and everything inside it
RECURSIVE SubExprs(_)
SubExprs(e) == {e} \cup UNION {SubExprs(e.args[i]) : i \in 1..Len(e.args)}

\* every expression of a list of statements, at any depth
RECURSIVE StmtExprs(_)
StmtExprs(stmts) ==
    UNION {SubExprs(stmts[i].value) \cup SubExprs(stmts[i].target)
             \cup StmtExprs(stmts[i].body) \cup StmtExprs(stmts[i].orelse) :
           i \in 1..Len(stmts)}

\* every statement of a list of statements, at any depth
RECURSIVE SubStmts(_)
SubStmts(stmts) ==
    UNION {{stmts[i]} \cup SubStmts(stmts[i].body) \cup SubStmts(stmts[i].orelse) :
           i \in 1..Len(stmts)}

\* a call of the analysed scope: f(...) or self.f(...)
IsSelfCall(e) ==
    /\ e.t = "Call"
    /\ e.id = func_name_base(full_name)
    /\ e.recv \in {None, "self"}

\* the self-calls written in a list of statements
SelfCallsOf(stmts) == {e \in StmtExprs(stmts) : IsSelfCall(e)}

\* the number of self-call sites written in an expression
RECURSIVE SelfCallSites(_)
SelfCallSites(e) ==
    LET inner[i \in 0..Len(e.args)] ==
            IF i = 0 THEN 0 ELSE inner[i - 1] + SelfCallSites(e.args[i])
    IN  (IF IsSelfCall(e) THEN 1 ELSE 0) + inner[Len(e.args)]

\* the number of self-call sites written in a list of statements
RECURSIVE CallSites(_)
CallSites(stmts) ==
    IF stmts = <<>> THEN 0
    ELSE LET node == Head(stmts)
         IN  SelfCallSites(node.value) + SelfCallSites(node.target)
               + CallSites(node.body) + CallSites(node.orelse)
               + CallSites(Tail(stmts))

Max2(a, b) == IF a >= b THEN a ELSE b

\* the number of self-calls one execution of a list of statements can reach:
\* the branches of a conditional are alternatives, so a conditional counts
\* for its larger branch
RECURSIVE PathCalls(_)
PathCalls(stmts) ==
    IF stmts = <<>> THEN 0
    ELSE LET node == Head(stmts)
             here == IF node.t = "If"
                     THEN SelfCallSites(node.value)
                            + Max2(PathCalls(node.body), PathCalls(node.orelse))
                     ELSE SelfCallSites(node.value) + SelfCallSites(node.target)
                            + PathCalls(node.body) + PathCalls(node.orelse)
         IN  here + PathCalls(Tail(stmts))

\* the single argument of a call is halved: n // 2, n / 2 or a slice
Halved(arg) ==
    \/ arg.t = "Subscript"
    \/ /\ arg.t = "BinOp" /\ arg.op \in {"FloorDiv", "Div"}
       /\ arg.args[2] = Constant(2)

\* the single argument of a call is reduced by one unit: n - 1
ReducedByOne(arg) ==
    /\ arg.t = "BinOp" /\ arg.op = "Sub"
    /\ arg.args[1].t = "Name" /\ arg.args[2] = Constant(1)

\* x.sort() or sorted(x)
IsSortCall(e) ==
    /\ e.t = "Call"
    /\ \/ e.recv = None /\ e.id = "sorted"
       \/ e.recv # None /\ e.id = "sort"

\* no function is defined inside the body
NoNestedDef(stmts) == \A node \in SubStmts(stmts) : node.t # "FunctionDef"

\* a branch made of returns and of further conditionals made of returns,
\* where a return hands back a plain value or the result of one self-call
RECURSIVE BranchOfReturns(_)
BranchOfReturns(stmts) ==
    \A i \in 1..Len(stmts) :
        \/ /\ stmts[i].t = "Return"
           /\ SelfCallSites(stmts[i].value) = (IF IsSelfCall(stmts[i].value) THEN 1 ELSE 0)
        \/ /\ stmts[i].t = "If"
           /\ SelfCallSites(stmts[i].value) = 0
           /\ BranchOfReturns(stmts[i].body)
           /\ BranchOfReturns(stmts[i].orelse)

\* every self-call of the body is the value of a return in a branch of a
\* conditional
CallsOnlyInBranches(stmts) ==
    /\ NoNestedDef(stmts)
    /\ \A i \in 1..Len(stmts) :
          \/ stmts[i].t = "If" /\ BranchOfReturns(<<stmts[i]>>)
          \/ stmts[i].t # "If" /\ CallSites(<<stmts[i]>>) = 0

\* C1: after a function scope has been analysed, branchingFactor is the
\* number of self-calls reachable in one execution of the body: a
\* conditional whose branches hold self-calls counts for the maximum over its
\* branches, not for their sum (one call in the if-branch and one in the
\* else-branch give branchingFactor 1).
C1_BranchingIsMaxOverBranches ==
    (pc = "done" /\ CallsOnlyInBranches(body))
        => v.branching_factor = PathCalls(body)

\* the self-calls of the body are halved, sit in the branches of one
\* conditional, and one execution reaches exactly one of them
DividingExclusiveBranches(stmts) ==
    /\ CallsOnlyInBranches(stmts)
    /\ BranchOfReturns(stmts)
    /\ Cardinality({i \in 1..Len(stmts) : stmts[i].t = "If"}) = 1
    /\ PathCalls(stmts) = 1
    /\ \A e \in SelfCallsOf(stmts) : Halved(e.args[1])

\* C2: a function whose self-calls all halve their argument and sit in
\* mutually exclusive branches of one conditional is reported with time
\* O(log n), never O(2^n) or O(n log n).
C2_DividingBranchesAreLogarithmic ==
    (pc = "done" /\ DividingExclusiveBranches(body)) => big_o = "O(log n)"

\* a loop counting up to the size of the input, with nothing in its body
CountingLoop(node) ==
    node.t = "For" /\ node.value \in CountingIters /\ node.body = <<Pass>>

\* one or more counting loops one after another, and nothing else
SequentialLoops(stmts) ==
    /\ stmts # <<>>
    /\ \A i \in 1..Len(stmts) : CountingLoop(stmts[i])

\* C3: a non-recursive scope without sort call or binary-search idiom whose
\* body is one or more bounded counting loops placed one after another
\* records every loop as non-nested and is reported with time O(n) and space
\* O(1), for any number of such loops.
C3_SequentialLoopsAreLinear ==
    (pc = "done" /\ SequentialLoops(body)) =>
        /\ \A i \in 1..Len(v.loops) : ~v.loops[i].is_nested
        /\ big_o = "O(n)"
        /\ space_o = "O(1)"

\* the number of counting loops over n nested one inside the other, starting
\* at a statement; 0 when the statement is not such a nest
RECURSIVE NestDepth(_)
NestDepth(node) ==
    IF node.t # "For" \/ node.value # RangeN THEN 0
    ELSE IF node.body = <<Pass>> THEN 1
    ELSE IF Len(node.body) = 1 /\ NestDepth(node.body[1]) > 0
         THEN 1 + NestDepth(node.body[1])
    ELSE 0

\* C4: a non-recursive scope whose loops are k >= 2 bounded counting loops
\* over the same size variable, each nested inside the previous one, is
\* reported with time O(n^k) and space O(1).
C4_NestedLoopsMultiply ==
    (pc = "done" /\ Len(body) = 1 /\ NestDepth(body[1]) >= 2) =>
        /\ big_o = "O(n^" \o ToString(NestDepth(body[1])) \o ")"
        /\ space_o = "O(1)"

\* a body of returns, assignments to a name and expression statements
StraightLine(stmts) ==
    \A i \in 1..Len(stmts) :
        /\ stmts[i].t \in {"Return", "Assign", "Expr"}
        /\ stmts[i].target.t \in {None, "Name"}

\* no sort call, and no call on a receiver other than self
NoSortNoMutation(stmts) ==
    \A e \in StmtExprs(stmts) :
        e.t = "Call" => (~IsSortCall(e) /\ e.recv \in {None, "self"})

\* the results of the self-calls are merged: handed to merge(...) or added
MergesResults(stmts) ==
    \E e \in StmtExprs(stmts) :
        /\ \/ e.t = "Call" /\ e.recv = None /\ e.id = "merge"
           \/ e.t = "BinOp" /\ e.op = "Add"
        /\ \E i \in 1..Len(e.args) : IsSelfCall(e.args[i])

\* two self-calls on halved arguments whose results are merged
MergeSortShape(stmts) ==
    /\ StraightLine(stmts) /\ NoSortNoMutation(stmts)
    /\ CallSites(stmts) = 2
    /\ \A e \in SelfCallsOf(stmts) : Halved(e.args[1])
    /\ MergesResults(stmts)

\* C5: a function that calls itself twice, each call on a halved argument,
\* and does linear merge work is reported with time O(n log n), wherever
\* the two self-calls are written (right-hand side of assignments, return
\* expression, arguments of the merge call).
C5_MergeSortIsLinearithmic ==
    (pc = "done" /\ MergeSortShape(body)) => big_o = "O(n log n)"

\* a bounded loop and a sort call written as an expression statement, as the
\* right-hand side of an assignment or as a returned value
LoopAndSort(stmts) ==
    /\ CallSites(stmts) = 0
    /\ \E i \in 1..Len(stmts) : stmts[i].t = "For"
    /\ \E i \in 1..Len(stmts) :
          /\ stmts[i].t \in {"Expr", "Assign", "Return"}
          /\ IsSortCall(stmts[i].value)

\* C6: a scope that contains a bounded loop and a call of a recognised sort
\* operation (x.sort() or sorted(x)) is reported with time O(n log n),
\* whatever statement the sort call is written in.
C6_SortIsLinearithmic ==
    (pc = "done" /\ LoopAndSort(body)) => big_o = "O(n log n)"

\* two self-calls on one execution path, each on n - 1
TwoCallsReducedByOne(stmts) ==
    /\ StraightLine(stmts) /\ NoSortNoMutation(stmts)
    /\ CallSites(stmts) = 2
    /\ \A e \in SelfCallsOf(stmts) : ReducedByOne(e.args[1])

\* C7: a function that calls itself twice in one execution path, each call
\* with its argument reduced by one, without mutable-state signal or sort
\* call, is reported with time O(2^n) and space O(n).
C7_TwoCallsAreExponential ==
    (pc = "done" /\ TwoCallsReducedByOne(body)) =>
        (big_o = "O(2^n)" /\ space_o = "O(n)")

\* exactly one self-call, on n // 2 or n / 2
OneCallHalved(stmts) ==
    /\ StraightLine(stmts) /\ NoSortNoMutation(stmts)
    /\ CallSites(stmts) = 1
    /\ \A e \in SelfCallsOf(stmts) : e.args[1].t = "BinOp" /\ Halved(e.args[1])

\* C8: a function that calls itself exactly once with its argument halved,
\* without loop, sort call or mutable-state signal, is reported with time
\* O(log n) and space O(log n).
C8_OneHalvedCallIsLogarithmic ==
    (pc = "done" /\ OneCallHalved(body)) =>
        (big_o = "O(log n)" /\ space_o = "O(log n)")

\* a recursive profile with the mutable-state signal
MutableRecursion ==
    pc = "done" /\ v.branching_factor >= 1 /\ v.has_mutable_state

MaxBranching == 11

RecurrenceTypes == {"linear", "divide_conquer", "backtracking"}

\* the reduction patterns of the solver's docstring; "n/3" is an "n/k"
Reductions == {"n-1", "n/2", "n/3", "index+1"}

WorkPerLevel ==
    {NoComplexity, SC("CONSTANT"), SC("LOGARITHMIC"), SC("LINEAR"),
     SymbolicComplexity("POLYNOMIAL", "n", 2, {})}

SolveInit ==
    /\ pc = "ready"
    /\ sin \in [recurrence_type : RecurrenceTypes,
                 branching_factor : 1..MaxBranching,
                 problem_reduction : Reductions,
                 work_per_level : WorkPerLevel]
    /\ sout = NoComplexity
    /\ kind = None /\ body = <<>> /\ v = NoVisitor
    /\ big_o = None /\ space_o = None /\ results = <<>> /\ raised = None

\* one call of RecurrenceSolver.solve
Solve ==
    /\ pc = "ready"
    /\ sout' = solve(sin.recurrence_type, sin.branching_factor,
                     sin.problem_reduction, sin.work_per_level)
    /\ pc' = "solved"
    /\ UNCHANGED <<kind, body, v, big_o, space_o, results, raised, sin>>

SolveNext == Solve

SolveSpec == SolveInit /\ [][SolveNext]_vars

\* the canonical mapping of the recurrence solver, as the design states it
Canonical(t, bf, red, work) ==
    IF t = "divide_conquer" /\ bf = 2 /\ red = "n/2" /\ work.expr_type = "LINEAR"
        THEN "LINEARITHMIC"
    ELSE IF t = "divide_conquer" /\ bf = 2 /\ red = "n/2"
            /\ work.expr_type \in {"CONSTANT", None}
        THEN "LINEAR"
    ELSE IF t = "divide_conquer" /\ bf = 1 /\ red = "n/2" THEN "LOGARITHMIC"
    ELSE IF t = "linear" /\ red = "n-1" THEN (IF bf = 1 THEN "LINEAR" ELSE "EXPONENTIAL")
    ELSE IF t = "linear" /\ red \in {"n/2", "n/3"} THEN "LOGARITHMIC"
    ELSE IF bf >= 2 THEN "EXPONENTIAL" ELSE "LINEAR"

MaxProfileBranching == 2

LoopBounds == {"n", "log n", "m", "constant", None}

\* the loops of a profile: none, one, or two of which the first is an outer
\* loop
LoopLists ==
    {<<>>}
      \cup {<<LoopInfo(b, nested)>> : b \in LoopBounds, nested \in BOOLEAN}
      \cup {<<LoopInfo(b1, FALSE), LoopInfo(b2, nested)>> :
                b1 \in {"n", "log n"}, b2 \in {"n", "log n", "m"}, nested \in BOOLEAN}

CostLists ==
    {<<>>, <<SC("CONSTANT")>>, <<SC("LINEAR")>>, <<SC("LINEARITHMIC")>>,
     <<SC("LINEAR"), SC("LINEARITHMIC")>>, <<SC("LINEARITHMIC"), SC("LINEAR")>>}

BranchLists == {<<>>, <<SC("LINEAR")>>, <<SC("EXPONENTIAL")>>}

AuxiliaryLists ==
    {<<>>, <<SC("LOGARITHMIC")>>, <<SC("LINEAR")>>,
     <<SymbolicComplexity("POLYNOMIAL", "n", 2, {})>>}

ProfileReductions == {None, "n-1", "n/2", "n/3", "index+1"}

\* profiles that differ in what compute_time_complexity reads
TimeProfiles ==
    {[EnhancedCodeVisitor(full_name) EXCEPT
        !.loops = l, !.branching_factor = bf, !.problem_reduction = red,
        !.recurrence_type = t, !.operation_costs = c, !.branch_complexities = b,
        !.has_mutable_state = f[1], !.has_undo_operations = f[2],
        !.has_binary_search_pattern = f[3]] :
      l \in LoopLists, bf \in 0..MaxProfileBranching, red \in ProfileReductions,
      t \in {None, "linear", "divide_conquer"}, c \in CostLists, b \in BranchLists,
      f \in BOOLEAN \X BOOLEAN \X BOOLEAN}

\* profiles that differ in what compute_space_complexity reads
SpaceProfiles ==
    {[EnhancedCodeVisitor(full_name) EXCEPT
        !.branching_factor = bf, !.problem_reduction = red, !.auxiliary_space = a] :
      bf \in 0..MaxProfileBranching, red \in ProfileReductions, a \in AuxiliaryLists}

ComposeInit ==
    /\ pc = "profile"
    /\ v \in TimeProfiles \cup SpaceProfiles
    /\ sout = NoComplexity /\ sin = NoSolve
    /\ kind = None /\ body = <<>>
    /\ big_o = None /\ space_o = None /\ results = <<>> /\ raised = None

\* one call of compute_time_complexity; sout holds the value returned
ComputeTime ==
    /\ pc = "profile"
    /\ sout' = compute_time_complexity(v)
    /\ big_o' = str(compute_time_complexity(v))
    /\ pc' = "timed"
    /\ UNCHANGED <<kind, body, v, space_o, results, raised, sin>>

\* one call of compute_space_complexity
ComputeSpace ==
    /\ pc = "timed"
    /\ space_o' = str(compute_space_complexity(v))
    /\ pc' = "composed"
    /\ UNCHANGED <<kind, body, v, big_o, results, raised, sin, sout>>

ComposeNext == ComputeTime \/ ComputeSpace

ComposeSpec == ComposeInit /\ [][ComposeNext]_vars

\* some observed operation cost of the profile is Linearithmic
ObservesLinearithmic ==
    \E i \in 1..Len(v.operation_costs) : v.operation_costs[i].expr_type = "LINEARITHMIC"

\* C11: compute_time_complexity applies its precedence in order for every
\* profile: with a Linearithmic observed cost the result is Linearithmic
\* whatever the loops, the recursion descriptor and the binary-search flag
\* are; otherwise, with the binary-search flag and branchingFactor 0, the
\* result is Logarithmic whatever the loops are.
C11_ComposerPrecedence ==
    pc \in {"timed", "composed"} =>
        /\ ObservesLinearithmic => sout.expr_type = "LINEARITHMIC"
        /\ (~ObservesLinearithmic /\ v.has_binary_search_pattern
              /\ v.branching_factor = 0) => sout.expr_type = "LOGARITHMIC"

\* a profile with a sort, two self-calls on n - 1 and an Exponential branch
\* was composed Linearithmic
C11_Witness ==
    /\ pc = "timed"
    /\ ObservesLinearithmic
    /\ v.branching_factor = 2 /\ v.problem_reduction = "n-1"
    /\ v.branch_complexities = <<SC("EXPONENTIAL")>>
    /\ sout.expr_type = "LINEARITHMIC"

\* the total order of the complexity classes, lowest first
ClassOrder ==
    <<"CONSTANT", "LOGARITHMIC", "SQRT", "LINEAR", "LINEARITHMIC", "POLYNOMIAL",
      "EXPONENTIAL", "FACTORIAL", "MULTIVARIATE">>

\* the place of a class in the total order
Rank(expr_type) == CHOOSE i \in 1..Len(ClassOrder) : ClassOrder[i] = expr_type

\* the Big-O notation of the classes a space complexity takes
Notation(c) ==
    CASE c.expr_type = "CONSTANT" -> "O(1)"
      [] c.expr_type = "LOGARITHMIC" -> "O(log n)"
      [] c.expr_type = "LINEAR" -> "O(n)"
      [] c.expr_type = "POLYNOMIAL" -> "O(n^" \o ToString(c.degree) \o ")"

\* the stack depth of a profile: Constant without recursion, Logarithmic for
\* reduction "n/2", Linear for every other reduction
StackDepth ==
    IF v.branching_factor = 0 THEN SC("CONSTANT")
    ELSE IF v.problem_reduction = "n/2" THEN SC("LOGARITHMIC")
    ELSE SC("LINEAR")

\* C12: compute_space_complexity returns, for every profile, Constant when
\* branchingFactor is 0, Linear for a recursive scope with reduction "n-1",
\* Logarithmic with reduction "n/2", Linear with any other reduction ("n/k"
\* with k # 2, "index+1", none), combined by max with the tracked auxiliary
\* costs.
C12_SpaceByReduction ==
    pc = "composed" =>
        LET costs == {StackDepth} \cup
                       {v.auxiliary_space[i] : i \in 1..Len(v.auxiliary_space)}
            top == CHOOSE c \in costs :
                       \A d \in costs : Rank(d.expr_type) <= Rank(c.expr_type)
        IN  space_o = Notation(top)

\* a recursive profile with reduction "n/3" and a Logarithmic auxiliary cost
\* was given Linear space
C12_Witness ==
    /\ pc = "composed"
    /\ v.branching_factor >= 1 /\ v.problem_reduction = "n/3"
    /\ v.auxiliary_space = <<SC("LOGARITHMIC")>>
    /\ space_o = "O(n)"

(***************************************************************************)
(* The algebra on its own: max, add and multiply on every pair of a        *)
(* bounded set of SymbolicComplexity values                                *)
(***************************************************************************)

\* largest degree of a polynomial operand
MaxDegree == 3

\* the values the operators are applied to: every class over n, polynomials
\* of each degree, values over a second variable, and multivariate values
\* with different variable maps
Values ==
    {SC(t) : t \in ComplexityType \ {"POLYNOMIAL", "MULTIVARIATE"}}
      \cup {SymbolicComplexity("POLYNOMIAL", "n", d, {}) : d \in 2..MaxDegree}
      \cup {SymbolicComplexity("LINEAR", "m", 0, {}),
            SymbolicComplexity("LOGARITHMIC", "m", 0, {}),
            SymbolicComplexity("POLYNOMIAL", "m", 2, {})}
      \cup {SymbolicComplexity("MULTIVARIATE", "n", 0, vs) :
                vs \in {{<<"n", 1>>, <<"m", 1>>}, {<<"n", 1>>, <<"k", 1>>}}}

AlgebraInit ==
    /\ pc = "operands"
    /\ sin \in [a : Values, b : Values, c : Values]
    /\ sout = NoComplexity
    /\ kind = None /\ body = <<>> /\ v = NoVisitor
    /\ big_o = None /\ space_o = None /\ results = <<>> /\ raised = None

\* a.max(b)
Max ==
    /\ pc = "operands"
    /\ sout' = max(sin.a, sin.b)
    /\ pc' = "max"
    /\ UNCHANGED <<kind, body, v, big_o, space_o, results, raised, sin>>

\* a.add(b)
Add ==
    /\ pc = "operands"
    /\ sout' = add(sin.a, sin.b)
    /\ pc' = "add"
    /\ UNCHANGED <<kind, body, v, big_o, space_o, results, raised, sin>>

\* a.multiply(b)
Multiply ==
    /\ pc = "operands"
    /\ sout' = multiply(sin.a, sin.b)
    /\ pc' = "multiply"
    /\ UNCHANGED <<kind, body, v, big_o, space_o, results, raised, sin>>

AlgebraNext == Max \/ Add \/ Multiply

AlgebraSpec == AlgebraInit /\ [][AlgebraNext]_vars

\* C13: over all SymbolicComplexity values, polynomials of different degree
\* and multivariate values with different variable maps included, max
\* returns the operand higher in the total order and is commutative,
\* associative and idempotent, and add(a, b) equals max(a, b), so
\* add(x, x) = x.
C13_MaxLaws ==
    /\ pc = "max" =>
          /\ sout \in {sin.a, sin.b}
          /\ Rank(sout.expr_type) >= Rank(sin.a.expr_type)
          /\ Rank(sout.expr_type) >= Rank(sin.b.expr_type)
          /\ sout = max(sin.b, sin.a)
          /\ max(sout, sin.c) = max(sin.a, max(sin.b, sin.c))
          /\ max(sin.a, sin.a) = sin.a
    /\ pc = "add" =>
          /\ sout = max(sin.a, sin.b)
          /\ add(sin.a, sin.a) = sin.a

\* the class and auxiliary data the table of multiply gives for a pair
Table(a, b) ==
    IF a.expr_type = "CONSTANT" THEN b
    ELSE IF b.expr_type = "CONSTANT" THEN a
    ELSE IF a.expr_type = "LINEAR" /\ b.expr_type = "LINEAR"
         THEN IF a.base_var = b.base_var
              THEN [expr_type |-> "POLYNOMIAL", base_var |-> a.base_var,
                    degree |-> 2, vars |-> {}]
              ELSE [expr_type |-> "MULTIVARIATE", base_var |-> "n", degree |-> 0,
                    vars |-> {<<a.base_var, 1>>, <<b.base_var, 1>>}]
    ELSE IF /\ a.expr_type = "LINEAR" /\ b.expr_type = "LOGARITHMIC"
            /\ a.base_var = b.base_var
         THEN [expr_type |-> "LINEARITHMIC", base_var |-> a.base_var,
               degree |-> 0, vars |-> {}]
    ELSE IF /\ a.expr_type = "POLYNOMIAL" /\ b.expr_type = "POLYNOMIAL"
            /\ a.base_var = b.base_var
         THEN [expr_type |-> "POLYNOMIAL", base_var |-> a.base_var,
               degree |-> a.degree + b.degree, vars |-> {}]
    ELSE IF Rank(a.expr_type) >= Rank(b.expr_type) THEN a ELSE b

AsyncFunctionDef(name, stmts) ==
    Stmt("AsyncFunctionDef", name, NoExpr, None, NoExpr, stmts, <<>>)
ClassDef(name, stmts) == Stmt("ClassDef", name, NoExpr, None, NoExpr, stmts, <<>>)

\* ASTAnalyzer.__init__; raised is the exception that left a handler, if any
ASTAnalyzer ==
    [results |-> <<>>, current_class_name |-> None,
     has_functions_or_classes |-> FALSE, raised |-> None]

\* full_name of visit_FunctionDef and visit_AsyncFunctionDef
FullName(a, node) ==
    IF a.current_class_name # None
    THEN <<a.current_class_name, node.name>> ELSE <<node.name>>

\* the entry ASTAnalyzer.visit_FunctionDef builds for a scope named name
AnalysisOf(node, name) ==
    LET w == visit_stmt(node, EnhancedCodeVisitor(name))
    IN  FunctionAnalysis(name, str(compute_time_complexity(w)),
                         str(compute_space_complexity(w)),
                         Len(w.loops), w.branching_factor)

RECURSIVE ASTAnalyzer_visit(_, _), ASTAnalyzer_generic_visit(_, _)
RECURSIVE ASTAnalyzer_visit_FunctionDef(_, _), ASTAnalyzer_visit_ClassDef(_, _)

\* NodeVisitor.generic_visit over a list of statements; an exception ends it
ASTAnalyzer_generic_visit(stmts, a) ==
    IF stmts = <<>> \/ a.raised # None THEN a
    ELSE ASTAnalyzer_generic_visit(Tail(stmts), ASTAnalyzer_visit(Head(stmts), a))

\* a visit_ClassDef that leaves has_functions_or_classes alone
ASTAnalyzer_visit_ClassDef_unmarked(node, a) ==
    LET a1 == ASTAnalyzer_generic_visit(
                  node.body, [a EXCEPT !.current_class_name = node.name])
    IN  IF a1.raised # None THEN a1
        ELSE [a1 EXCEPT !.current_class_name = a.current_class_name]

\* a visit_ClassDef that leaves current_class_name set on return
ASTAnalyzer_visit_ClassDef_unrestored(node, a) ==
    ASTAnalyzer_generic_visit(
        node.body,
        [a EXCEPT !.has_functions_or_classes = TRUE,
                  !.current_class_name = node.name])

\* ASTAnalyzer.visit_FunctionDef
ASTAnalyzer_visit_FunctionDef(node, a) ==
    ASTAnalyzer_generic_visit(
        node.body,
        [a EXCEPT !.has_functions_or_classes = TRUE,
                  !.results = Append(@, AnalysisOf(node, FullName(a, node)))])

\* ASTAnalyzer.visit_ClassDef
ASTAnalyzer_visit_ClassDef(node, a) ==
    LET a1 == ASTAnalyzer_generic_visit(
                  node.body,
                  [a EXCEPT !.has_functions_or_classes = TRUE,
                            !.current_class_name = node.name])
    IN  IF a1.raised # None THEN a1
        ELSE [a1 EXCEPT !.current_class_name = a.current_class_name]

\* ASTAnalyzer.visit_AsyncFunctionDef: the enhanced branch succeeds, and
\* results.append then reads the local `visitor`, bound only by the fallback
ASTAnalyzer_visit_AsyncFunctionDef(node, a) ==
    [a EXCEPT !.has_functions_or_classes = TRUE, !.raised = "UnboundLocalError"]

\* NodeVisitor.visit of ASTAnalyzer on a statement
ASTAnalyzer_visit(node, a) ==
    CASE node.t = "FunctionDef" -> ASTAnalyzer_visit_FunctionDef(node, a)
      [] node.t = "ClassDef" -> ASTAnalyzer_visit_ClassDef(node, a)
      [] node.t = "AsyncFunctionDef" -> ASTAnalyzer_visit_AsyncFunctionDef(node, a)
      [] OTHER -> ASTAnalyzer_generic_visit(
                      node.orelse, ASTAnalyzer_generic_visit(node.body, a))

\* analyze_source: the entry for a unit without functions or classes
MainAnalysis(unit) ==
    LET w == visit_stmts(unit, EnhancedCodeVisitor(<<>>))
    IN  FunctionAnalysis(<<"<main>">>, str(compute_time_complexity(w)),
                         str(compute_space_complexity(w)), 0, 0)

\* analyze_source, after analyzer.visit(tree) has returned
ResultsReturned(a, unit) ==
    IF ~a.has_functions_or_classes
    THEN Append(a.results, MainAnalysis(unit)) ELSE a.results

\* analyze_source on a parsed unit
analyze_source(unit) ==
    LET a == ASTAnalyzer_generic_visit(unit, ASTAnalyzer)
    IN  [raised |-> a.raised,
         results |-> IF a.raised # None THEN <<>> ELSE ResultsReturned(a, unit)]

\* main.py: the list main prints for the results
OutputOf(rs) ==
    [i \in 1..Len(rs) |->
        [function |-> rs[i].name, big_o |-> rs[i].time_complexity,
         space_complexity |-> rs[i].space_complexity,
         loops |-> rs[i].max_loop_depth, recursion |-> rs[i].recursive_calls]]

\* what main has printed: an error record or a list of results
Printed(error, output) == [error |-> error, output |-> output]

\* largest number of top-level statements of a unit
MaxDecls == 2

TopFunctionDefs ==
    {FunctionDef("f", b) :
        b \in {<<Return(n1)>>,
               <<Return(SelfCall(Sub1))>>,
               <<For(RangeN, <<Pass>>)>>,
               <<FunctionDef("g", <<Return(NestedCall(Div2))>>),
                 Return(SelfCall(Sub1))>>}}
      \cup {FunctionDef("g", <<Return(n1)>>),
            FunctionDef("g", <<Return(SelfCall(Sub1))>>)}

TopAsyncFunctionDefs ==
    {AsyncFunctionDef("f", <<Return(n1)>>), AsyncFunctionDef("h", <<Pass>>)}

TopClassDefs ==
    {ClassDef("C", <<Pass>>),
     ClassDef("C", <<FunctionDef("f", <<Return(SelfMethodCall(Sub1))>>),
                     FunctionDef("g", <<Return(n1)>>)>>),
     ClassDef("C", <<AsyncFunctionDef("f", <<Pass>>)>>),
     ClassDef("A", <<ClassDef("B", <<FunctionDef("m", <<Pass>>)>>),
                     FunctionDef("k", <<Pass>>)>>)}

TopStatements ==
    {Expr(MethodCall("a", "sort", <<>>)),
     For(RangeN, <<Pass>>),
     Assign(Name("x"), n1),
     If(Name("c"), <<FunctionDef("g", <<Return(n1)>>)>>, <<>>)}

\* main has read the source text from stdin
BatchInit ==
    /\ pc = "stdin"
    /\ kind = None
    /\ body = <<>>
    /\ v = ASTAnalyzer
    /\ big_o = None /\ space_o = None /\ results = <<>> /\ raised = None
    /\ sin = NoSolve /\ sout = NoComplexity

\* ast.parse returns a tree; analyze_source creates the ASTAnalyzer
Parse ==
    /\ pc = "stdin"
    /\ pc' = "visit" /\ kind' = "Module"
    /\ UNCHANGED <<body, v, big_o, space_o, results, raised, sin, sout>>

\* ast.parse raises SyntaxError: main prints the error record and returns
ParseSyntaxError ==
    /\ pc = "stdin"
    /\ pc' = "returned" /\ kind' = "SyntaxError"
    /\ sout' = Printed("SyntaxError", <<>>)
    /\ UNCHANGED <<body, v, big_o, space_o, results, raised, sin>>

\* the exceptions other than SyntaxError that ast.parse raises on a text it
\* cannot parse (nesting too deep for the parser)
ParseFaults == {"RecursionError", "MemoryError"}

\* ast.parse raises one of them: main has no handler for it
ParseFault ==
    /\ pc = "stdin"
    /\ \E e \in ParseFaults : raised' = e /\ kind' = e
    /\ pc' = "raised"
    /\ UNCHANGED <<body, v, big_o, space_o, results, sin, sout>>

\* the generic visit of the module reaches its next statement; an exception
\* of a handler leaves analyze_source and main
Declare(node) ==
    /\ body' = Append(body, node)
    /\ v' = ASTAnalyzer_visit(node, v)
    /\ raised' = v'.raised
    /\ pc' = IF v'.raised # None THEN "raised" ELSE "visit"
    /\ UNCHANGED <<kind, big_o, space_o, results, sin, sout>>

VisitTopFunctionDef ==
    /\ pc = "visit" /\ Len(body) < MaxDecls
    /\ \E node \in TopFunctionDefs : Declare(node)

VisitTopAsyncFunctionDef ==
    /\ pc = "visit" /\ Len(body) < MaxDecls
    /\ \E node \in TopAsyncFunctionDefs : Declare(node)

VisitTopClassDef ==
    /\ pc = "visit" /\ Len(body) < MaxDecls
    /\ \E node \in TopClassDefs : Declare(node)

VisitTopStatement ==
    /\ pc = "visit" /\ Len(body) < MaxDecls
    /\ \E node \in TopStatements : Declare(node)

\* analyzer.visit(tree) has returned: analyze_source adds the <main> entry
\* if nothing was declared and returns; main prints the list
ReturnResults ==
    /\ pc = "visit"
    /\ results' = ResultsReturned(v, body)
    /\ sout' = Printed(None, OutputOf(results'))
    /\ pc' = "returned"
    /\ UNCHANGED <<kind, body, v, big_o, space_o, raised, sin>>

\* analyze_source is called once more on the same tree
AnalyzeAgain ==
    /\ pc = "returned" /\ kind = "Module"
    /\ sin' = analyze_source(body)
    /\ pc' = "reanalyzed"
    /\ UNCHANGED <<kind, body, v, big_o, space_o, results, raised, sout>>

BatchNext ==
    \/ Parse \/ ParseSyntaxError \/ ParseFault
    \/ VisitTopFunctionDef \/ VisitTopAsyncFunctionDef \/ VisitTopClassDef
    \/ VisitTopStatement
    \/ ReturnResults \/ AnalyzeAgain

BatchSpec == BatchInit /\ [][BatchNext]_vars

(***************************************************************************)
(* Readings of a source unit                                               *)
(***************************************************************************)

ScopeClasses == {"FunctionDef", "AsyncFunctionDef"}

\* the unit declares a function, an async function or a class somewhere
Declares(stmts) ==
    \E node \in SubStmts(stmts) : node.t \in ScopeClasses \cup {"ClassDef"}

\* the names of the declared functions, methods and async functions in
\* declaration order, a method as <<Class, method>>
RECURSIVE DeclaredNames(_, _)
DeclaredNames(stmts, cls) ==
    IF stmts = <<>> THEN <<>>
    ELSE LET node == Head(stmts)
             own == IF node.t \in ScopeClasses
                    THEN <<IF cls # None THEN <<cls, node.name>> ELSE <<node.name>>>>
                    ELSE <<>>
             inner == CASE node.t = "ClassDef" -> DeclaredNames(node.body, node.name)
                        [] node.t \in ScopeClasses -> DeclaredNames(node.body, None)
                        [] OTHER -> DeclaredNames(node.body, cls)
                                    \o DeclaredNames(node.orelse, cls)
         IN  own \o inner \o DeclaredNames(Tail(stmts), cls)

NamesOf(rs) == [i \in 1..Len(rs) |-> rs[i].name]

\* the run of main on a parsed unit has ended, by a return or by an exception
Ended == kind = "Module" /\ pc \in {"returned", "reanalyzed", "raised"}

\* C15: for every unit that parses, analyze_source returns without raising,
\* with exactly one result per declared function, method and async function,
\* in declaration order, a method named Class.method
C15_OneResultPerScope ==
    (Ended /\ Declares(body)) =>
        /\ raised = None
        /\ NamesOf(results) = DeclaredNames(body, None)

\* the unknown sentinel
Sentinel(name) == FunctionAnalysis(name, "O(?)", "O(?)", 0, 0)

\* the top-level scopes whose analysis ends in an internal fault
Faulting(unit) == {i \in 1..Len(unit) : unit[i].t = "AsyncFunctionDef"}

\* C16: when the analysis of one scope fails with an internal fault, the
\* result of that scope is the unknown sentinel, the sibling scopes still
\* have their results, and no exception reaches the caller of main
C16_FaultYieldsSentinel ==
    (Ended /\ Faulting(body) # {}) =>
        /\ raised = None
        /\ \A i \in Faulting(body) :
              \E k \in 1..Len(results) : results[k] = Sentinel(<<body[i].name>>)
        /\ \A i \in 1..Len(body) :
              body[i].t = "FunctionDef"
                  => \E k \in 1..Len(results) : results[k].name = <<body[i].name>>

\* C17: analyze_source returns a result named <main> exactly when the unit
\* declares no function, async function or class anywhere; the list is then
\* that one result
C17_MainIffNothingDeclared ==
    (kind = "Module" /\ pc \in {"returned", "reanalyzed"}) =>
        LET named == {k \in 1..Len(results) : results[k].name = <<"<main>">>}
        IN  /\ named # {} <=> ~Declares(body)
            /\ ~Declares(body) => Len(results) = 1
            /\ sout.output = OutputOf(results)

C17_Witness ==
    /\ pc = "returned" /\ Len(body) = 2 /\ ~Declares(body)
    /\ body[1].t = "For"
    /\ NamesOf(results) = <<<<"<main>">>>>

\* C18: for a text that fails to parse, main prints exactly one error record
\* of kind SyntaxError and no results, and returns without raising
C18_ParseFailureIsReported ==
    (pc # "stdin" /\ kind # "Module") =>
        /\ raised = None
        /\ pc = "returned"
        /\ sout = Printed("SyntaxError", <<>>)
        /\ results = <<>>

\* the entries the analyzer holds after the generic visit of a unit
Visited(unit) == ASTAnalyzer_generic_visit(unit, ASTAnalyzer).results

\* the analysis of the first i statements of the unit ended without exception
Analysed(unit, i) ==
    ASTAnalyzer_generic_visit(SubSeq(unit, 1, i), ASTAnalyzer).raised = None

NestedDefs(stmts) ==
    {i \in 1..Len(stmts) :
        stmts[i].t = "FunctionDef" /\ stmts[i].name # func_name_base(full_name)}

IsOwn(node) == ~(node.t = "FunctionDef" /\ node.name # func_name_base(full_name))

\* the visitor of the scope after a walk of the body without the nested
\* definitions
OwnWalk(stmts) == visit_stmts(SelectSeq(stmts, IsOwn), EnhancedCodeVisitor(full_name))

\* the branching factor of the nested function's own profile
NestedBranching(node) ==
    visit_stmt(node, EnhancedCodeVisitor(Append(full_name, node.name))).branching_factor

\* C20: with a nested function definition in the body, the branching factor
\* of the scope is the larger of the scope's own self-call count and the
\* nested profile's branching factor, wherever the definition stands, and the
\* nested body adds nothing else to the scope's visitor
C20_NestedMergeIsMax ==
    (pc = "walk" /\ NestedDefs(body) # {}) =>
        /\ \E top \in {OwnWalk(body).branching_factor}
                  \cup {NestedBranching(body[i]) : i \in NestedDefs(body)} :
              /\ v.branching_factor = top
              /\ top >= OwnWalk(body).branching_factor
              /\ \A i \in NestedDefs(body) : top >= NestedBranching(body[i])
        /\ v.loops = OwnWalk(body).loops
        /\ v.operation_costs = OwnWalk(body).operation_costs

(***************************************************************************)
(* Readings of the extractor's counters and flags                          *)
(***************************************************************************)

\* C21: every self-call site of the scope adds exactly one to the branching
\* factor, whatever its position (expression statement, return, right-hand
\* side of an assignment, test of a conditional, argument of another call)
C21_EveryCallSiteCountsOnce ==
    (pc = "walk" /\ NoNestedDef(body)) => v.branching_factor = CallSites(body)

\* C22: in every state of the walk of a scope, merges of nested scopes
\* included, a branching factor of 0 goes with an unset reduction and an
\* unset recurrence shape
C22_NoReductionWithoutRecursion ==
    v.branching_factor = 0
        => v.problem_reduction = None /\ v.recurrence_type = None

\* a nested function that halves by a slice has been merged into a scope
\* with no self-call of its own
C22_Witness ==
    /\ pc = "walk" /\ Len(body) = 2
    /\ body[2].t = "FunctionDef" /\ body[2].name = "g"
    /\ CallSites(body) = 0
    /\ v.branching_factor = 1 /\ v.problem_reduction = "n/2"

\* the body holds a call x.append(...) or x.add(...)
HasMutationCall(stmts) ==
    \E e \in StmtExprs(stmts) :
        e.t = "Call" /\ e.recv # None /\ e.id \in {"append", "add"}

\* the body holds a call x.pop(...) or x.remove(...)
HasUndoCall(stmts) ==
    \E e \in StmtExprs(stmts) :
        e.t = "Call" /\ e.recv # None /\ e.id \in {"pop", "remove"}

\* C23: a body with a sequence-mutation call leaves hasMutableState set in
\* the profile handed to the composer, and a body with a removal call leaves
\* hasUndoOperations set; the flags survive the end of the walk
C23_MutationSetsFlags ==
    pc = "done" =>
        /\ HasMutationCall(body) => v.has_mutable_state
        /\ HasUndoCall(body) => v.has_undo_operations

(***************************************************************************)
(* Readings of loops                                                       *)
(***************************************************************************)

\* the upper bound of a range(...) call: its only argument, or its second
UpperBound(iter) == IF Len(iter.args) = 1 THEN iter.args[1] ELSE iter.args[2]

\* the body is one for loop over range(...) with an empty body
OnlyRangeLoop(stmts) ==
    /\ Len(stmts) = 1
    /\ stmts[1].t = "For" /\ stmts[1].body = <<Pass>>
    /\ IsNameCall(stmts[1].value, "range")

\* C24: a counting loop over range(...) whose upper bound is a numeric
\* constant is classified Constant for every arity of range, and a scope with
\* nothing else is reported O(1); a range bounded by a variable is Linear
C24_ConstantRangeIsConstant ==
    (pc = "done" /\ OnlyRangeLoop(body)) =>
        /\ UpperBound(body[1].value).t = "Constant"
              => v.loops[1].bound_type = "constant" /\ big_o = "O(1)"
        /\ UpperBound(body[1].value).t = "Name"
              => v.loops[1].bound_type = "n" /\ big_o = "O(n)"

\* the statement halves the variable x: x //= 2, x /= 2, x = x // 2, x = x / 2
HalvesVariable(node, x) ==
    \/ /\ node.t = "AugAssign" /\ node.target = x
       /\ node.op \in {"FloorDiv", "Div"} /\ node.value = Constant(2)
    \/ /\ node.t = "Assign" /\ node.target = x
       /\ node.value.t = "BinOp" /\ node.value.op \in {"FloorDiv", "Div"}
       /\ node.value.args = <<x, Constant(2)>>

\* the body is one while loop on a variable whose body only halves it
OnlyHalvingLoop(stmts) ==
    /\ Len(stmts) = 1
    /\ stmts[1].t = "While" /\ stmts[1].value.t = "Name"
    /\ Len(stmts[1].body) = 1
    /\ HalvesVariable(stmts[1].body[1], stmts[1].value)

\* C25: a while loop whose body halves its controlling variable is
\* classified Logarithmic, by augmented assignment or by plain assignment,
\* and a scope with nothing else is reported O(log n)
C25_HalvingLoopIsLogarithmic ==
    (pc = "done" /\ OnlyHalvingLoop(body)) =>
        v.loops[1].bound_type = "log n" /\ big_o = "O(log n)"

(***************************************************************************)
(* Readings of the result ASTAnalyzer appends for the scope                *)
(***************************************************************************)

\* C26: the enhanced analyzer is tried first for every function scope; when
\* it completes, exactly one result is appended for the scope and its four
\* fields (time, space, loop count, recursion count) all come from the
\* enhanced analyzer, never a mix of the two analyzers
C26_OneResultFromOneAnalyzer ==
    pc = "done" =>
        /\ raised = None
        /\ Len(results) >= 1
        /\ results[1] = FunctionAnalysis(full_name, big_o, space_o,
                                         Len(v.loops), v.branching_factor)

(***************************************************************************)
(* Readings of the algebra and of the composer's order                     *)
(***************************************************************************)

\* C27: multiply is commutative: multiply(a, b) and multiply(b, a) have the
\* same class and the same auxiliary data for all operands
C27_MultiplyCommutes ==
    pc = "multiply" => sout = multiply(sin.b, sin.a)

\* the class of the bound recorded for a loop
BoundClass(loop) ==
    CASE loop.bound_type \in {"n", "m"} -> "LINEAR"
      [] loop.bound_type = "log n" -> "LOGARITHMIC"
      [] OTHER -> "CONSTANT"

\* C28: the time compute_time_complexity returns is never lower in the total
\* order than an observed operation cost of the profile, nor than the bound
\* of a recorded loop, whichever rule produced it
C28_ComposedTimeDominates ==
    pc = "done" =>
        LET composed == compute_time_complexity(v)
        IN  /\ big_o = str(composed)
            /\ \A i \in 1..Len(v.operation_costs) :
                  Rank(composed.expr_type) >= Rank(v.operation_costs[i].expr_type)
            /\ \A i \in 1..Len(v.loops) :
                  Rank(composed.expr_type) >= Rank(BoundClass(v.loops[i]))

(***************************************************************************)
(* Readings of the counts in the results of a unit                         *)
(***************************************************************************)

\* the profile of the implicit scope of a unit without declarations
MainProfile(unit) == visit_stmts(unit, EnhancedCodeVisitor(<<>>))

\* C29: in every result analyze_source returns, the implicit <main> result
\* included, the loop count is the number of loops recorded for the scope
\* and the recursion count is the branching factor of its profile
C29_CountsComeFromProfile ==
    (pc = "returned" /\ kind = "Module") =>
        /\ ~Declares(body) =>
              /\ results[1].max_loop_depth = Len(MainProfile(body).loops)
              /\ results[1].recursive_calls = MainProfile(body).branching_factor
        /\ \A i \in 1..Len(body) :
              body[i].t \in ScopeClasses =>
                  \E k \in 1..Len(results) :
                      LET w == visit_stmt(body[i], EnhancedCodeVisitor(<<body[i].name>>))
                      IN  /\ results[k].name = <<body[i].name>>
                          /\ results[k].max_loop_depth = Len(w.loops)
                          /\ results[k].recursive_calls = w.branching_factor

(***************************************************************************)
(* ast_parser.py: CodeVisitor, the heuristic analyzer of the except branch *)
(***************************************************************************)

\* CodeVisitor.__init__
CodeVisitor(func_name) ==
    [func_name |-> func_name,
     current_loop_depth |-> 0,
     max_loop_depth |-> 0,
     recursive_calls |-> 0,
     current_recursive_calls |-> 0,
     max_recursive_calls_in_scope |-> 0,
     max_recursive_calls_in_single_path |-> 0,
     nested_function_names |-> {},
     has_dividing_recursion |-> FALSE,
     has_dividing_loop |-> FALSE,
     has_loop_with_recursion |-> FALSE,
     has_mutually_exclusive_recursion |-> FALSE,
     processing_if_else |-> FALSE,
     has_builtin_sort |-> FALSE,
     has_binary_search_pattern |-> FALSE,
     recursive_calls_in_current_block |-> 0,
     recursive_calls_in_function_body |-> <<>>,
     in_if_branch |-> FALSE,
     recursive_calls_in_if |-> 0,
     recursive_calls_in_else |-> 0]

\* one iteration of the loop of CodeVisitor._check_dividing_recursion
DividingArg(arg) ==
    \/ /\ arg.t = "BinOp"
       /\ \/ arg.op \in {"FloorDiv", "Div"}
          \/ /\ arg.op \in {"Sub", "Add"}
             /\ \/ arg.args[1].t = "Name" /\ arg.args[1].id = "mid"
                \/ arg.args[2].t = "Name" /\ arg.args[2].id = "mid"
    \/ arg.t = "Name" /\ arg.id \in {"mid", "left", "right", "middle"}
    \/ arg.t = "Subscript"

\* CodeVisitor._check_dividing_recursion
check_dividing_recursion(node, c) ==
    IF \E i \in 1..Len(node.args) : DividingArg(node.args[i])
    THEN [c EXCEPT !.has_dividing_recursion = TRUE] ELSE c

\* the part of CodeVisitor.visit_Call before generic_visit
HeuristicCallHead(node, c) ==
    LET c1 == IF node.recv # None /\ node.id = "sort"
              THEN [c EXCEPT !.has_builtin_sort = TRUE] ELSE c
    IN  IF c1.func_name = <<>> THEN c1
        ELSE IF is_recursive(node, c1)
        THEN LET block == c1.recursive_calls_in_current_block + 1
                 c2 == [c1 EXCEPT
                          !.recursive_calls = @ + 1,
                          !.current_recursive_calls = @ + 1,
                          !.recursive_calls_in_current_block = block,
                          !.recursive_calls_in_function_body = Append(@, TRUE),
                          !.recursive_calls_in_if =
                              IF c1.in_if_branch THEN @ + 1 ELSE @,
                          !.recursive_calls_in_else =
                              IF c1.in_if_branch THEN @ ELSE @ + 1,
                          !.max_recursive_calls_in_single_path =
                              IF c1.processing_if_else THEN @ ELSE Max2(@, block),
                          !.has_loop_with_recursion =
                              @ \/ c1.current_loop_depth > 0]
             IN  check_dividing_recursion(node, c2)
        ELSE [c1 EXCEPT !.recursive_calls_in_function_body = Append(@, FALSE)]

\* CodeVisitor._check_loop_body_for_division
check_loop_body_for_division(stmts, c) ==
    IF \E i \in 1..Len(stmts) :
          \/ stmts[i].t = "AugAssign" /\ stmts[i].op \in {"FloorDiv", "Div"}
          \/ /\ stmts[i].t = "Assign" /\ stmts[i].target.t = "Name"
             /\ stmts[i].value.t = "BinOp"
             /\ stmts[i].value.op \in {"FloorDiv", "Div"}
             /\ stmts[i].value.args[1].t = "Name"
             /\ stmts[i].value.args[1].id = stmts[i].target.id
    THEN [c EXCEPT !.has_dividing_loop = TRUE] ELSE c

\* the locals of _check_binary_search_pattern that check_assignments reads
\* and writes, with the value it returns
NoPattern == [returned |-> FALSE, has_left_update |-> FALSE, has_right_update |-> FALSE]

RECURSIVE check_assignments(_, _), check_orelse(_, _)

\* check_assignments of _check_binary_search_pattern: it returns True at the
\* first `mid = ... // ...` of the list and leaves the rest unread
check_assignments(stmts, fl) ==
    IF stmts = <<>> THEN [fl EXCEPT !.returned = FALSE]
    ELSE LET stmt == Head(stmts)
             val == stmt.value
         IN  IF stmt.t = "Assign" /\ stmt.target.t = "Name"
             THEN IF stmt.target.id = "mid"
                  THEN IF val.t = "BinOp" /\ val.op = "FloorDiv"
                       THEN [fl EXCEPT !.returned = TRUE]
                       ELSE check_assignments(Tail(stmts), fl)
                  ELSE IF stmt.target.id \in {"l", "left", "low"}
                  THEN check_assignments(
                           Tail(stmts),
                           [fl EXCEPT !.has_left_update =
                               @ \/ (/\ val.t = "BinOp" /\ val.op = "Add"
                                     /\ val.args[1].t = "Name"
                                     /\ val.args[1].id = "mid")])
                  ELSE IF stmt.target.id \in {"r", "right", "high"}
                  THEN check_assignments(
                           Tail(stmts),
                           [fl EXCEPT !.has_right_update =
                               @ \/ (/\ val.t = "BinOp" /\ val.op = "Sub"
                                     /\ val.args[1].t = "Name"
                                     /\ val.args[1].id = "mid")])
                  ELSE check_assignments(Tail(stmts), fl)
             ELSE IF stmt.t = "If"
             THEN check_assignments(
                      Tail(stmts),
                      check_orelse(stmt.orelse, check_assignments(stmt.body, fl)))
             ELSE check_assignments(Tail(stmts), fl)

\* the loop of check_assignments over the orelse of a conditional
check_orelse(stmts, fl) ==
    IF stmts = <<>> THEN fl
    ELSE LET stmt == Head(stmts)
             fl1 == IF stmt.t = "If"
                    THEN LET inner == check_assignments(stmt.body, fl)
                         IN  IF stmt.orelse # <<>>
                             THEN check_assignments(stmt.orelse, inner) ELSE inner
                    ELSE IF stmt.t = "Assign" THEN check_assignments(<<stmt>>, fl)
                    ELSE fl
         IN  check_orelse(Tail(stmts), fl1)

\* the loops of _check_binary_search_pattern over the orelse of a conditional
\* and over the loop body; has_mid_calculation is carried along
RECURSIVE pattern_orelse(_, _), pattern_body(_, _)
pattern_orelse(stmts, st) ==
    IF stmts = <<>> THEN st
    ELSE LET stmt == Head(stmts)
             st1 == IF stmt.t = "If"
                    THEN LET inner == check_assignments(stmt.body, st.fl)
                             after == IF stmt.orelse # <<>>
                                      THEN check_assignments(stmt.orelse, inner)
                                      ELSE inner
                         IN  [has_mid_calculation |->
                                  st.has_mid_calculation \/ inner.returned,
                              fl |-> after]
                    ELSE [st EXCEPT !.fl = check_assignments(<<stmt>>, st.fl)]
         IN  pattern_orelse(Tail(stmts), st1)

pattern_body(stmts, st) ==
    IF stmts = <<>> THEN st
    ELSE LET stmt == Head(stmts)
             st1 == IF stmt.t = "Assign"
                    THEN LET r == check_assignments(<<stmt>>, st.fl)
                         IN  [has_mid_calculation |->
                                  st.has_mid_calculation \/ r.returned,
                              fl |-> r]
                    ELSE IF stmt.t = "If"
                    THEN LET r == check_assignments(stmt.body, st.fl)
                         IN  pattern_orelse(
                                 stmt.orelse,
                                 [has_mid_calculation |->
                                      st.has_mid_calculation \/ r.returned,
                                  fl |-> r])
                    ELSE st
         IN  pattern_body(Tail(stmts), st1)

\* CodeVisitor._check_binary_search_pattern
check_binary_search_pattern(stmts, c) ==
    LET st == pattern_body(stmts, [has_mid_calculation |-> FALSE, fl |-> NoPattern])
    IN  IF st.has_mid_calculation
           /\ (st.fl.has_left_update \/ st.fl.has_right_update)
        THEN [c EXCEPT !.has_binary_search_pattern = TRUE, !.has_dividing_loop = TRUE]
        ELSE c

\* CodeVisitor._check_function_body_for_division
RECURSIVE check_function_body_for_division(_, _)
check_function_body_for_division(stmts, c) ==
    IF stmts = <<>> THEN c
    ELSE LET stmt == Head(stmts)
             c1 == IF stmt.t = "Assign" /\ stmt.target.t = "Name"
                   THEN IF \/ stmt.target.id \in {"mid", "middle"}
                           \/ /\ stmt.value.t = "BinOp"
                              /\ stmt.value.op \in {"FloorDiv", "Div"}
                        THEN [c EXCEPT !.has_dividing_recursion = TRUE] ELSE c
                   ELSE IF stmt.t = "If"
                   THEN check_function_body_for_division(
                            stmt.orelse,
                            check_function_body_for_division(stmt.body, c))
                   ELSE c
         IN  check_function_body_for_division(Tail(stmts), c1)

\* CodeVisitor._enter_loop
enter_loop(c) ==
    [c EXCEPT !.current_loop_depth = @ + 1,
              !.max_loop_depth = Max2(@, c.current_loop_depth + 1)]

\* CodeVisitor._exit_loop
exit_loop(c) == [c EXCEPT !.current_loop_depth = @ - 1]

\* the largest entry of branch_counts, 0 for an empty list
RECURSIVE MaxOf(_)
MaxOf(counts) == IF counts = <<>> THEN 0 ELSE Max2(Head(counts), MaxOf(Tail(counts)))

\* the merge of a nested function's CodeVisitor into the enclosing one
HeuristicMergeNested(c, nested, node) ==
    check_function_body_for_division(
        node.body,
        [c EXCEPT
           !.nested_function_names = @ \cup {node.name},
           !.max_recursive_calls_in_single_path =
               IF nested.max_recursive_calls_in_single_path >= 2
               THEN Max2(@, nested.max_recursive_calls_in_single_path) ELSE @,
           !.has_dividing_recursion = @ \/ nested.has_dividing_recursion,
           !.has_loop_with_recursion = @ \/ nested.has_loop_with_recursion])

\* the end of CodeVisitor.visit_FunctionDef for the scope under analysis
CloseScope(c, prev) ==
    LET body_recursive_count ==
            Cardinality({i \in 1..Len(c.recursive_calls_in_function_body) :
                            c.recursive_calls_in_function_body[i]})
    IN  [c EXCEPT
           !.max_recursive_calls_in_scope = Max2(@, c.current_recursive_calls),
           !.max_recursive_calls_in_single_path =
               Max2(Max2(@, c.current_recursive_calls),
                    Max2(c.recursive_calls_in_current_block, body_recursive_count)),
           !.current_recursive_calls = prev.current_recursive_calls,
           !.recursive_calls_in_current_block = prev.recursive_calls_in_current_block,
           !.recursive_calls_in_function_body = prev.recursive_calls_in_function_body]

\* the end of CodeVisitor.visit_If: the counts of the branches are folded
\* into the visitor and the saved counters are restored
CloseIf(c, prev, if_calls, branch_counts) ==
    LET else_calls == MaxOf(branch_counts)
        max_in_branches == Max2(if_calls, else_calls)
        has_multiple_branches_with_calls ==
            \/ if_calls > 0 /\ else_calls > 0
            \/ Cardinality({i \in 1..Len(branch_counts) : branch_counts[i] > 0}) > 1
        c1 == IF if_calls + else_calls > 0
              THEN IF has_multiple_branches_with_calls
                   THEN [c EXCEPT
                           !.has_mutually_exclusive_recursion = TRUE,
                           !.max_recursive_calls_in_single_path =
                               Max2(prev.max_recursive_calls_in_single_path,
                                    max_in_branches)]
                   ELSE [c EXCEPT
                           !.max_recursive_calls_in_single_path =
                               Max2(@, max_in_branches)]
              ELSE c
    IN  [c1 EXCEPT
           !.recursive_calls_in_if = prev.recursive_calls_in_if,
           !.recursive_calls_in_else = prev.recursive_calls_in_else,
           !.recursive_calls_in_current_block = prev.recursive_calls_in_current_block,
           !.processing_if_else = prev.processing_if_else]

RECURSIVE heuristic_visit(_, _), heuristic_visit_all(_, _)
RECURSIVE heuristic_visit_stmt(_, _), heuristic_visit_stmts(_, _), visit_orelse(_, _)

heuristic_visit_all(exprs, c) ==
    IF exprs = <<>> THEN c
    ELSE heuristic_visit_all(Tail(exprs), heuristic_visit(Head(exprs), c))

\* NodeVisitor.visit of CodeVisitor on an expression: visit_Call for a Call
\* (one generic_visit), generic_visit for every other class
heuristic_visit(node, c) ==
    IF node.t = "Call"
    THEN heuristic_visit_all(node.args, HeuristicCallHead(node, c))
    ELSE heuristic_visit_all(node.args, c)

heuristic_visit_stmts(stmts, c) ==
    IF stmts = <<>> THEN c
    ELSE heuristic_visit_stmts(Tail(stmts), heuristic_visit_stmt(Head(stmts), c))

\* the loop of CodeVisitor.visit_If over node.orelse; st holds the visitor
\* and branch_counts
visit_orelse(stmts, st) ==
    IF stmts = <<>> THEN st
    ELSE LET stmt == Head(stmts)
             saved == st.c.recursive_calls_in_current_block
             zero == [st.c EXCEPT !.recursive_calls_in_current_block = 0]
             st1 ==
                IF stmt.t = "If"
                THEN LET c1 == heuristic_visit_stmts(stmt.body, zero)
                         counts1 == Append(st.branch_counts,
                                           c1.recursive_calls_in_current_block)
                     IN  IF stmt.orelse # <<>>
                         THEN LET c2 == heuristic_visit_stmts(
                                            stmt.orelse,
                                            [c1 EXCEPT
                                               !.recursive_calls_in_current_block = 0])
                              IN  [c |-> [c2 EXCEPT
                                            !.recursive_calls_in_current_block = saved],
                                   branch_counts |->
                                       Append(counts1,
                                              c2.recursive_calls_in_current_block)]
                         ELSE [c |-> [c1 EXCEPT
                                        !.recursive_calls_in_current_block = saved],
                               branch_counts |-> counts1]
                ELSE LET c1 == heuristic_visit_stmt(stmt, zero)
                     IN  [c |-> [c1 EXCEPT !.recursive_calls_in_current_block = saved],
                          branch_counts |->
                              Append(st.branch_counts,
                                     c1.recursive_calls_in_current_block)]
         IN  visit_orelse(Tail(stmts), st1)

\* CodeVisitor.visit_For
heuristic_visit_For(node, c) ==
    LET c1 == enter_loop(c)
        c2 == IF IsNameCall(node.value, "range") /\ Len(node.value.args) >= 3
              THEN [c1 EXCEPT !.has_dividing_loop = TRUE] ELSE c1
    IN  exit_loop(heuristic_visit_stmts(
                      node.orelse,
                      heuristic_visit_stmts(node.body, heuristic_visit(node.value, c2))))

\* CodeVisitor.visit_While
heuristic_visit_While(node, c) ==
    LET c1 == check_binary_search_pattern(
                  node.body, check_loop_body_for_division(node.body, enter_loop(c)))
    IN  exit_loop(heuristic_visit_stmts(
                      node.orelse,
                      heuristic_visit_stmts(node.body, heuristic_visit(node.value, c1))))

\* CodeVisitor.visit_If: node.test is not visited
heuristic_visit_If(node, c) ==
    LET c1 == [c EXCEPT !.processing_if_else = TRUE, !.in_if_branch = TRUE,
                        !.recursive_calls_in_if = 0,
                        !.recursive_calls_in_current_block = 0]
        c2 == heuristic_visit_stmts(node.body, c1)
        c3 == [c2 EXCEPT !.in_if_branch = FALSE, !.recursive_calls_in_else = 0]
        st == visit_orelse(node.orelse, [c |-> c3, branch_counts |-> <<>>])
    IN  CloseIf(st.c, c, c2.recursive_calls_in_current_block, st.branch_counts)

\* CodeVisitor.visit_FunctionDef
heuristic_visit_FunctionDef(node, c) ==
    IF c.func_name # <<>> /\ node.name # func_name_base(c.func_name)
    THEN LET nested == heuristic_visit_stmt(node, CodeVisitor(Append(c.func_name, node.name)))
         IN  HeuristicMergeNested(c, nested, node)
    ELSE LET c1 == [c EXCEPT !.current_recursive_calls = 0,
                             !.recursive_calls_in_current_block = 0,
                             !.recursive_calls_in_function_body = <<>>]
         IN  CloseScope(heuristic_visit_stmts(node.body, c1), c)

\* NodeVisitor.visit of CodeVisitor on a statement
heuristic_visit_stmt(node, c) ==
    CASE node.t = "For" -> heuristic_visit_For(node, c)
      [] node.t = "While" -> heuristic_visit_While(node, c)
      [] node.t = "If" -> heuristic_visit_If(node, c)
      [] node.t = "FunctionDef" -> heuristic_visit_FunctionDef(node, c)
      [] node.t \in {"Assign", "AugAssign"} ->
            heuristic_visit(node.value, heuristic_visit(node.target, c))
      [] node.t \in {"Expr", "Return"} -> heuristic_visit(node.value, c)
      [] node.t \in {"AsyncFunctionDef", "ClassDef"} ->
            heuristic_visit_stmts(node.body, c)
      [] OTHER -> c

(***************************************************************************)
(* complexity.py: the heuristic estimates                                  *)
(***************************************************************************)

\* estimate_time_complexity without an enhanced visitor, on the fields of a
\* CodeVisitor in the order the except branch passes them
estimate_time_complexity(c) ==
    LET loop_depth == c.max_loop_depth
        recursive_calls == c.recursive_calls
        path == c.max_recursive_calls_in_single_path
    IN  CASE c.has_builtin_sort -> "O(n log n)"
          [] c.has_binary_search_pattern /\ loop_depth = 1 /\ recursive_calls = 0 ->
                "O(log n)"
          [] /\ c.has_dividing_recursion /\ recursive_calls > 0
             /\ (c.has_mutually_exclusive_recursion \/ path <= 1) -> "O(log n)"
          [] path >= 2 /\ c.has_dividing_recursion -> "O(n log n)"
          [] path >= 2 -> "O(2^n)"
          [] c.has_loop_with_recursion /\ c.has_dividing_recursion -> "O(n log n)"
          [] loop_depth >= 1 /\ recursive_calls > 0 /\ c.has_dividing_recursion ->
                "O(n log n)"
          [] c.has_dividing_loop /\ loop_depth = 1 /\ recursive_calls = 0 -> "O(log n)"
          [] recursive_calls = 1 /\ ~c.has_dividing_recursion /\ loop_depth = 0 -> "O(n)"
          [] loop_depth = 0 -> "O(1)"
          [] loop_depth = 1 -> "O(n)"
          [] loop_depth = 2 -> "O(n^2)"
          [] OTHER -> "O(n^" \o ToString(loop_depth) \o ")"

\* estimate_space_complexity without an enhanced visitor
estimate_space_complexity(c) == IF c.recursive_calls >= 1 THEN "O(n)" ELSE "O(1)"

(***************************************************************************)
(* The walk of one function by CodeVisitor                                 *)
(***************************************************************************)

\* CodeVisitor(full_name) has been created and visit has been called on the
\* node of the function: visit_FunctionDef has saved and reset the counters
\* of the scope and starts the generic visit of the body
HeuristicInit ==
    /\ pc = "heuristic"
    /\ kind = "FunctionDef"
    /\ body = <<>>
    /\ v = CodeVisitor(full_name)
    /\ big_o = None /\ space_o = None /\ results = <<>> /\ raised = None
    /\ sin = NoSolve /\ sout = NoComplexity

\* the generic visit of the function's body reaches its next statement
HeuristicReach(node) ==
    /\ body' = Append(body, node)
    /\ v' = heuristic_visit_stmt(node, v)
    /\ UNCHANGED <<pc, kind, big_o, space_o, results, raised, sin, sout>>

\* the next statement of the body is a for loop: CodeVisitor.visit_For
HeuristicFor ==
    /\ pc = "heuristic" /\ Len(body) < MaxStmts
    /\ \E node \in ForStmts : HeuristicReach(node)

\* the next statement of the body is a while loop: CodeVisitor.visit_While
HeuristicWhile ==
    /\ pc = "heuristic" /\ Len(body) < MaxStmts
    /\ \E node \in WhileStmts : HeuristicReach(node)

\* the next statement of the body is a conditional: CodeVisitor.visit_If
HeuristicIf ==
    /\ pc = "heuristic" /\ Len(body) < MaxStmts
    /\ \E node \in IfStmts : HeuristicReach(node)

\* the next statement of the body is a function definition:
\* CodeVisitor.visit_FunctionDef
HeuristicNestedDef ==
    /\ pc = "heuristic" /\ Len(body) < MaxStmts
    /\ \E node \in DefStmts : HeuristicReach(node)

\* the next statement of the body is of a class CodeVisitor has no method
\* for: generic_visit, with visit_Call on the calls below it
HeuristicOther ==
    /\ pc = "heuristic" /\ Len(body) < MaxStmts
    /\ \E node \in SimpleStmts : HeuristicReach(node)

\* the generic visit of the function returns: visit_FunctionDef folds the
\* counters of the scope into the maxima and restores them, and the caller
\* reads the two estimates off the visitor
HeuristicEstimate ==
    /\ pc = "heuristic"
    /\ LET c == CloseScope(v, CodeVisitor(full_name))
       IN  /\ v' = c
           /\ big_o' = estimate_time_complexity(c)
           /\ space_o' = estimate_space_complexity(c)
    /\ pc' = "estimated"
    /\ UNCHANGED <<kind, body, results, raised, sin, sout>>

HeuristicNext ==
    \/ HeuristicFor \/ HeuristicWhile \/ HeuristicIf \/ HeuristicNestedDef
    \/ HeuristicOther \/ HeuristicEstimate

FallbackSpec == HeuristicInit /\ [][HeuristicNext]_vars

\* a function whose only self-calls are one in the if-branch and one in the
\* else-branch of one conditional
OneCallPerBranch(stmts) ==
    \E i \in 1..Len(stmts) :
        /\ stmts[i].t = "If"
        /\ SelfCallSites(stmts[i].value) = 0
        /\ CallSites(stmts[i].body) = 1
        /\ stmts[i].orelse # <<>>
        /\ \A j \in 1..Len(stmts[i].orelse) : stmts[i].orelse[j].t # "If"
        /\ CallSites(stmts[i].orelse) = 1
        /\ CallSites(stmts) = 2
        /\ NoNestedDef(stmts)

\* C30: after CodeVisitor has visited a function whose only self-calls are one
\* in the if-branch and one in the else-branch of a conditional,
\* max_recursive_calls_in_single_path is 1, the maximum over the exclusive
\* branches and not their total, and has_mutually_exclusive_recursion is set
C30_ExclusiveBranchesCountOnce ==
    (pc = "estimated" /\ OneCallPerBranch(body)) =>
        /\ v.max_recursive_calls_in_single_path = 1
        /\ v.has_mutually_exclusive_recursion

====
